---------------------------- MODULE Spec2Model ----------------------------
(***************************************************************************)
(* Travel-request lifecycle of TC3005B.501-Backend: the relational store   *)
(* (Request, Route, Route_Request, Country, City, Receipt), the            *)
(* transactional create / edit of a request with its legs, and the status  *)
(* transitions driven by the applicant, authorizer, accounts-payable and   *)
(* travel-agent handlers.                                                  *)
(*                                                                         *)
(* One action is one HTTP handler, run to completion (sequential           *)
(* execution).  A handler's store statements are numbered in execution     *)
(* order; the input `fail` names the statement at which the store raises   *)
(* an error (0 = none), so the catch / rollback paths are exercised.       *)
(* Row ids stand for AUTO_INCREMENT keys: an insert receives an id that    *)
(* is in use neither in the table nor in the transaction's snapshot.       *)
(***************************************************************************)
EXTENDS Integers, Sequences, FiniteSets, TLC

\* ------------------------------------------------------------- bounds
\* Length of the additionalRoutes array of a create / edit payload.
MaxAdditionalRoutes == 1
\* Length of the receipts array of a batch, and receipts a run creates.
MaxBatch == 2
\* The most times a request row's last_mod_date is set again after its insert.
MaxStamps == 2
\* A location lookup starts only while its table has fewer rows than this.
MaxLocationRows == 3
\* An upload starts only while the bucket holds fewer files than this.
MaxFiles == 2
\* Connections of the pool (connectionLimit).
PoolSize == 2

\* ------------------------------------------------------ program constants
MinutesPerDay == 1440

\* Request_status ids (spec glossary; the literals of the handlers).
Draft == 1
FirstReview == 2
SecondReview == 3
TripQuote == 4
TravelAgency == 5
ExpenseProof == 6
ReceiptValidation == 7
Finalized == 8
Cancelled == 9
Declined == 10

\* ------------------------------------------------------------- helpers
Max(S) == CHOOSE x \in S : \A y \in S : y <= x

\* An id not in `used` (the store's AUTO_INCREMENT key for a new row).
NewId(used) == CHOOSE i \in 1..(Cardinality(used) + 1) : i \notin used

\* Math.ceil(a / b) for b > 0.
Ceil(a, b) == -((-a) \div b)

\* The sequences over S of length at most n.
SeqsUpTo(S, n) == UNION {[1..k -> S] : k \in 0..n}

\* F of the value of v, v being evaluated once.
With(v, F(_)) == CHOOSE y \in {F(x) : x \in {v}} : TRUE

\* ---------------------------------------------------------- User table
\* user_id -> role_id.  Role ids: 1 Solicitante, 2 Agencia de viajes,
\* 3 Cuentas por pagar, 4 N1, 5 N2.  User 6 has no row.
User == (1 :> 1) @@ (2 :> 4) @@ (3 :> 5) @@ (4 :> 3) @@ (5 :> 2)
UserIds == DOMAIN User \cup {6}

\* ------------------------------------------------------------ payloads
\* A leg of a payload.  A field the client did not send is absent from the
\* record.  Dates are day numbers counted from 0000-01-01, times are minutes
\* after midnight.
MainRoutes ==
    { [router_index |-> 1,
       origin_country_name |-> "Mexico", origin_city_name |-> "CDMX",
       destination_country_name |-> "Canada", destination_city_name |-> "Vancouver",
       beginning_date |-> 100, beginning_time |-> 540,
       ending_date |-> 101, ending_time |-> 540,
       plane_needed |-> FALSE, hotel_needed |-> FALSE],
      [router_index |-> 2,
       origin_country_name |-> "Mexico", origin_city_name |-> "CDMX",
       destination_country_name |-> "Mexico", destination_city_name |-> "CDMX",
       beginning_date |-> 100, beginning_time |-> 540,
       ending_date |-> 101, ending_time |-> 541,
       plane_needed |-> TRUE, hotel_needed |-> FALSE] }

AdditionalRoutes ==
    { [router_index |-> 3,
       origin_country_name |-> "Canada", origin_city_name |-> "Vancouver",
       destination_country_name |-> "Mexico", destination_city_name |-> "CDMX",
       beginning_date |-> 102, beginning_time |-> 0,
       ending_date |-> 103, ending_time |-> 0,
       hotel_needed |-> TRUE],
      [router_index |-> 0] }

\* The request-level fields sent with a main route.
Fees(mainRoute) ==
    IF mainRoute.plane_needed
    THEN [notes |-> "changed", requested_fee |-> 20, imposed_fee |-> 10]
    ELSE [notes |-> "first"]

TravelDetails ==
    { Fees(m) @@ [mainRoute |-> m, additionalRoutes |-> a] :
        m \in MainRoutes, a \in SeqsUpTo(AdditionalRoutes, MaxAdditionalRoutes) }

\* `x = d` default of a destructuring pattern / `x || d` on a present field.
Field(r, f, d) == IF f \in DOMAIN r THEN r[f] ELSE d

formatRoutesWithoutMain(mainRoute, additionalRoutes) ==
    [i \in 1..Len(additionalRoutes) |->
        [router_index |-> additionalRoutes[i].router_index,
         origin_country_name |-> Field(additionalRoutes[i], "origin_country_name", "notSelected"),
         origin_city_name |-> Field(additionalRoutes[i], "origin_city_name", "notSelected"),
         destination_country_name |->
             Field(additionalRoutes[i], "destination_country_name", "notSelected"),
         destination_city_name |->
             Field(additionalRoutes[i], "destination_city_name", "notSelected"),
         beginning_date |-> Field(additionalRoutes[i], "beginning_date", 0),
         beginning_time |-> Field(additionalRoutes[i], "beginning_time", 0),
         ending_date |-> Field(additionalRoutes[i], "ending_date", 0),
         ending_time |-> Field(additionalRoutes[i], "ending_time", 0),
         plane_needed |-> Field(additionalRoutes[i], "plane_needed", FALSE),
         hotel_needed |-> Field(additionalRoutes[i], "hotel_needed", FALSE)]]

\* applicantService.formatRoutes: the main route verbatim, every additional
\* route with its missing fields defaulted.
formatRoutes(mainRoute, additionalRoutes) ==
    <<mainRoute>> \o
    [i \in 1..Len(additionalRoutes) |->
        LET route == additionalRoutes[i] IN
        [router_index |-> route.router_index,
         origin_country_name |-> Field(route, "origin_country_name", "notSelected"),
         origin_city_name |-> Field(route, "origin_city_name", "notSelected"),
         destination_country_name |-> Field(route, "destination_country_name", "notSelected"),
         destination_city_name |-> Field(route, "destination_city_name", "notSelected"),
         beginning_date |-> Field(route, "beginning_date", 0),
         beginning_time |-> Field(route, "beginning_time", 0),
         ending_date |-> Field(route, "ending_date", 0),
         ending_time |-> Field(route, "ending_time", 0),
         plane_needed |-> Field(route, "plane_needed", FALSE),
         hotel_needed |-> Field(route, "hotel_needed", FALSE)]]

\* Array.prototype.sort((a, b) => a.router_index - b.router_index): stable.
RECURSIVE sortByRouterIndex(_)
sortByRouterIndex(routes) ==
    IF Len(routes) <= 1 THEN routes
    ELSE With(sortByRouterIndex(Tail(routes)), LAMBDA rest :
           LET head == Head(routes)
               before == SelectSeq(rest, LAMBDA r : r.router_index < head.router_index)
               after == SelectSeq(rest, LAMBDA r : r.router_index >= head.router_index)
           IN before \o <<head>> \o after)

\* new Date(`${date}T${time}`) in minutes.
Timestamp(date, time) == date * MinutesPerDay + time

getRequestDaysRoundedDown(routes) ==
    IF Len(routes) = 0 THEN 0
    ELSE With(sortByRouterIndex(routes), LAMBDA sortedRoutes :
           LET firstRoute == sortedRoutes[1]
               lastRoute == sortedRoutes[Len(sortedRoutes)]
               startDate == Timestamp(firstRoute.beginning_date, firstRoute.beginning_time)
               endDate == Timestamp(lastRoute.ending_date, lastRoute.ending_time)
           IN (endDate - startDate) \div MinutesPerDay)

\* applicantService.getRequestDays.
getRequestDays(routes) ==
    IF Len(routes) = 0 THEN 0
    ELSE With(sortByRouterIndex(routes), LAMBDA sortedRoutes :
           LET firstRoute == sortedRoutes[1]
               lastRoute == sortedRoutes[Len(sortedRoutes)]
               startDate == Timestamp(firstRoute.beginning_date, firstRoute.beginning_time)
               endDate == Timestamp(lastRoute.ending_date, lastRoute.ending_time)
           IN Ceil(endDate - startDate, MinutesPerDay))

\* ------------------------------------------------------------ the store
\* last_mod_date = CURRENT_TIMESTAMP.  A row's last_mod_date is kept as the
\* number of times it was set after the insert: the clock moves on between
\* two statements on a row.
CurrentTimestamp(last_mod_date) == last_mod_date + 1

VARIABLES
    db,         \* the committed tables of the relational store
    response,   \* what the last handler reported to its caller
    calls,      \* the handler calls in flight, by caller: where each stands
    pool        \* the connections checked out of the pool and not returned:
                \* how many with their transaction open, how many with it done
                \* between two of its store statements and what it has read

vars == <<db, response, calls, pool>>

\* Reference rows present before any request exists.
SeedCountry == (1 :> "Mexico") @@ (2 :> "notSelected")
SeedCity == (1 :> "CDMX") @@ (2 :> "notSelected")

EmptyTable == [i \in {} |-> 0]

\* Request 1 with its single leg is in the store from the start; no handler
\* call of a run names it, so any change to its rows is interference.
SeedRequest ==
    (1 :> [user_id |-> 1, request_status_id |-> 4, notes |-> "seed",
           requested_fee |-> 0, imposed_fee |-> 0, request_days |-> 1,
           last_mod_date |-> 0])
SeedRoute ==
    (1 :> [id_origin_country |-> 1, id_origin_city |-> 1,
           id_destination_country |-> 2, id_destination_city |-> 2,
           router_index |-> 1, plane_needed |-> TRUE, hotel_needed |-> FALSE,
           beginning_date |-> 100, beginning_time |-> 0,
           ending_date |-> 101, ending_time |-> 0])

\* A rejected receipt of request 1.
SeedReceipt ==
    (1 :> [receipt_type_id |-> 1, request_id |-> 1, amount |-> 5,
           validation |-> "Rechazado", pdf_file_id |-> 0, xml_file_id |-> 0])

InitDb ==
    [Request |-> SeedRequest,
     Route |-> SeedRoute,
     Route_Request |-> {[request_id |-> 1, route_id |-> 1]},
     Country |-> SeedCountry,
     City |-> SeedCity,
     Receipt |-> SeedReceipt,
     Collation |-> "bin",
     Files |-> {}]

\* The request ids handlers are called with: 2 is the id of the request a run
\* creates, 3 never has a row.
RequestIds == {2, 3}

\* Result of a sequence of statements: the tables as the connection sees
\* them, and whether every statement succeeded.
Ok(d) == [db |-> d, ok |-> TRUE]
Thrown(d) == [db |-> d, ok |-> FALSE]

rollbackOmitted(s, d) == d

\* conn.rollback(): the committed tables are those of the snapshot `s`.
rollback(s, d) == s

\* conn.commit(): the connection's tables become the committed ones.
commit(s, d) == d

\* Route_Request.request_id references Request: a link row for a request
\* that has no row is a constraint violation.
ForeignKeyHolds(d, requestId) == requestId \in DOMAIN d.Request

\* The lower-case form of the names that have one in the model.
LowerCase(name) ==
    IF name = "Mexico" THEN "mexico" ELSE IF name = "CDMX" THEN "cdmx" ELSE name

\* `column = ?` on a name column.  The comparison is the one of the column's
\* collation: "bin" compares the characters, "ci" ignores their case.
NameEquals(d, stored, name) ==
    IF d.Collation = "ci" THEN LowerCase(stored) = LowerCase(name) ELSE stored = name

\* applicantService.getCountryId: SELECT by name, INSERT when absent.
getCountryId(s, d, countryName) ==
    LET countryRows == {id \in DOMAIN d.Country : NameEquals(d, d.Country[id], countryName)} IN
    IF countryRows = {}
    THEN LET insertId == NewId(DOMAIN d.Country \cup DOMAIN s.Country)
         IN [db |-> [d EXCEPT !.Country = (insertId :> countryName) @@ @], id |-> insertId]
    ELSE [db |-> d, id |-> CHOOSE id \in countryRows : \A o \in countryRows : id <= o]

\* applicantService.getCityId.
getCityId(s, d, cityName) ==
    LET cityRows == {id \in DOMAIN d.City : NameEquals(d, d.City[id], cityName)} IN
    IF cityRows = {}
    THEN LET insertId == NewId(DOMAIN d.City \cup DOMAIN s.City)
         IN [db |-> [d EXCEPT !.City = (insertId :> cityName) @@ @], id |-> insertId]
    ELSE [db |-> d, id |-> CHOOSE id \in cityRows : \A o \in cityRows : id <= o]

\* Statements of one iteration of the route loop, in order:
\* 1..4 the country / city lookups, 5 INSERT Route, 6 INSERT Route_Request.
StatementsPerRoute == 6

\* One iteration of `for (const route of allRoutes)`; failStmt is the
\* statement of this iteration that throws (0 = none).
processRoute(s, d, requestId, route, failStmt) ==
    IF failStmt = 1 THEN Thrown(d) ELSE
    With(getCountryId(s, d, route.origin_country_name), LAMBDA c1 :
    IF failStmt = 2 THEN Thrown(c1.db) ELSE
    With(getCountryId(s, c1.db, route.destination_country_name), LAMBDA c2 :
    IF failStmt = 3 THEN Thrown(c2.db) ELSE
    With(getCityId(s, c2.db, route.origin_city_name), LAMBDA c3 :
    IF failStmt = 4 THEN Thrown(c3.db) ELSE
    With(getCityId(s, c3.db, route.destination_city_name), LAMBDA c4 :
    IF failStmt = 5 THEN Thrown(c4.db) ELSE
    With(NewId(DOMAIN c4.db.Route \cup DOMAIN s.Route), LAMBDA routeId :
    LET row == [id_origin_country |-> c1.id,
                id_origin_city |-> c3.id,
                id_destination_country |-> c2.id,
                id_destination_city |-> c4.id,
                router_index |-> route.router_index,
                plane_needed |-> route.plane_needed,
                hotel_needed |-> route.hotel_needed,
                beginning_date |-> route.beginning_date,
                beginning_time |-> route.beginning_time,
                ending_date |-> route.ending_date,
                ending_time |-> route.ending_time]
    IN
    With([c4.db EXCEPT !.Route = (routeId :> row) @@ @], LAMBDA d5 :
    IF failStmt = 6 \/ ~ForeignKeyHolds(d5, requestId) THEN Thrown(d5) ELSE
    Ok([d5 EXCEPT !.Route_Request =
                     @ \cup {[request_id |-> requestId, route_id |-> routeId]}])))))))

\* The route loop of create / edit / create-draft.  fail = <<i, stmt>>:
\* statement stmt of iteration i throws; <<0, 0>> = none.
RECURSIVE insertRoutes(_, _, _, _, _, _)
insertRoutes(s, d, requestId, allRoutes, i, fail) ==
    IF i > Len(allRoutes) THEN Ok(d)
    ELSE With(processRoute(s, d, requestId, allRoutes[i],
                           IF fail[1] = i THEN fail[2] ELSE 0),
              LAMBDA r : IF r.ok
                         THEN insertRoutes(s, r.db, requestId, allRoutes, i + 1, fail)
                         ELSE r)

\* The iteration and statement of the route loop that statement number
\* `fail` of a handler falls on, the loop starting after statement `base`.
LoopFail(fail, base) ==
    IF fail > base
    THEN <<((fail - base - 1) \div StatementsPerRoute) + 1,
           ((fail - base - 1) % StatementsPerRoute) + 1>>
    ELSE <<0, 0>>

\* The payload's legs as the route loop sees them: getRequestDays has sorted
\* the array in place.
AllRoutes(travelDetails) ==
    sortByRouterIndex(formatRoutes(travelDetails.mainRoute, travelDetails.additionalRoutes))

RoleStatusAllFirstReview(role_id) ==
    IF role_id \in {1, 4, 5} THEN FirstReview ELSE 0

\* Role -> initial status of create and confirm-draft; 0 = the role may not
\* create (the handler throws).
RoleStatus(role_id) ==
    IF role_id = 1 THEN FirstReview
    ELSE IF role_id = 4 THEN SecondReview
    ELSE IF role_id = 5 THEN TripQuote
    ELSE 0

\* Statements of Applicant.createTravelRequest: 1 SELECT role_id,
\* 2 INSERT Request, then the route loop.
CreateStatements(travelDetails) ==
    2 + StatementsPerRoute * Len(AllRoutes(travelDetails))

\* applicantModel.createTravelRequest: the committed tables afterwards and
\* the value returned (requestId) or the error thrown.
ApplicantCreateTravelRequest(s, userId, travelDetails, fail) ==
    LET failed == [db |-> rollback(s, s), requestId |-> 0,
                   error |-> "Database Error: Unable to fill Request table",
                   log |-> <<"Error creating travel request:">>]
    IN
    With(formatRoutes(travelDetails.mainRoute, travelDetails.additionalRoutes),
         LAMBDA allRoutes :
    With(getRequestDays(allRoutes), LAMBDA request_days :
    IF fail = 1 \/ userId \notin DOMAIN User \/ RoleStatus(User[userId]) = 0
    THEN failed
    ELSE
    With(NewId(DOMAIN s.Request), LAMBDA requestId :
    LET request_status == RoleStatus(User[userId])
        row == [user_id |-> userId,
                request_status_id |-> request_status,
                notes |-> travelDetails.notes,
                requested_fee |-> Field(travelDetails, "requested_fee", 0),
                imposed_fee |-> Field(travelDetails, "imposed_fee", 0),
                request_days |-> request_days,
                last_mod_date |-> 0]
    IN
    With([s EXCEPT !.Request = (requestId :> row) @@ @], LAMBDA d2 :
    IF fail = 2 THEN failed
    ELSE
    With(sortByRouterIndex(allRoutes), LAMBDA sortedRoutes :
    With(insertRoutes(s, d2, requestId, sortedRoutes, 1, LoopFail(fail, 2)), LAMBDA r :
    IF r.ok
    THEN [db |-> commit(s, r.db), requestId |-> requestId, error |-> "none",
          log |-> <<>>]
    ELSE [failed EXCEPT !.db = rollback(s, r.db),
                        !.log = <<"Error processing route:">> \o @]))))))

\* SELECT route_id FROM Route_Request WHERE request_id = ?
RouteIdsOf(d, requestId) ==
    {l.route_id : l \in {x \in d.Route_Request : x.request_id = requestId}}

RECURSIVE SetToSeq(_)
SetToSeq(S) ==
    IF S = {} THEN <<>>
    ELSE LET m == CHOOSE x \in S : \A y \in S : x <= y
         IN <<m>> \o SetToSeq(S \ {m})

\* Statements of Applicant.editTravelRequest: 1 UPDATE Request, 2 SELECT the
\* old route ids, 3 DELETE the links, one DELETE per old route, the route loop.
EditStatements(d, requestId, travelChanges) ==
    3 + Cardinality(RouteIdsOf(d, requestId))
      + StatementsPerRoute * Len(AllRoutes(travelChanges))

WithoutNothing(table, ids) == table

\* Table without the rows whose key is in `ids`.
Without(table, ids) == [i \in DOMAIN table \ ids |-> table[i]]

\* applicantModel.editTravelRequest.
ApplicantEditTravelRequest(s, requestId, travelChanges, fail) ==
    LET failed(d) == [db |-> rollback(s, d), requestId |-> 0,
                      error |-> "Database Error: Unable to edit travel request",
                      log |-> <<"Error editing travel request:">>]
    IN
    With(formatRoutes(travelChanges.mainRoute, travelChanges.additionalRoutes),
         LAMBDA allRoutes :
    With(getRequestDays(allRoutes), LAMBDA request_days :
    With(IF requestId \in DOMAIN s.Request
         THEN [s EXCEPT !.Request[requestId].notes = travelChanges.notes,
                        !.Request[requestId].requested_fee =
                            Field(travelChanges, "requested_fee", 0),
                        !.Request[requestId].imposed_fee =
                            Field(travelChanges, "imposed_fee", 0),
                        !.Request[requestId].request_days = request_days,
                        !.Request[requestId].last_mod_date = CurrentTimestamp(@)]
         ELSE s,
         LAMBDA d1 :
    With(SetToSeq(RouteIdsOf(d1, requestId)), LAMBDA oldRoutesIds :
    LET n == Len(oldRoutesIds)
        d3 == [d1 EXCEPT !.Route_Request = {l \in @ : l.request_id # requestId}]
        \* the old routes deleted before the failing statement
        deleted == IF fail > 3 /\ fail <= 3 + n
                   THEN {oldRoutesIds[i] : i \in 1..(fail - 4)}
                   ELSE {oldRoutesIds[i] : i \in 1..n}
    IN
    With([d3 EXCEPT !.Route = Without(@, deleted)], LAMBDA d4 :
    IF fail = 1 THEN failed(s)
    ELSE IF fail \in {2, 3} THEN failed(d1)
    ELSE IF fail > 3 /\ fail <= 3 + n THEN failed(d4)
    ELSE
    With(sortByRouterIndex(allRoutes), LAMBDA sortedRoutes :
    With(insertRoutes(s, d4, requestId, sortedRoutes, 1, LoopFail(fail, 3 + n)),
         LAMBDA r :
    IF r.ok
    THEN [db |-> commit(s, r.db), requestId |-> requestId, error |-> "none",
          log |-> <<>>]
    ELSE [failed(r.db) EXCEPT !.log = <<"Error processing route:">> \o @])))))))

\* A payload of create-draft: as TravelDetails, or with nothing filled in.
DraftDetails ==
    TravelDetails \cup {[mainRoute |-> [router_index |-> 0], additionalRoutes |-> <<>>]}

\* The destructuring defaults of createDraftTravelRequest on the main route.
DraftMainRoute(mainRoute) ==
    [router_index |-> Field(mainRoute, "router_index", 0),
     origin_country_name |-> Field(mainRoute, "origin_country_name", "notSelected"),
     origin_city_name |-> Field(mainRoute, "origin_city_name", "notSelected"),
     destination_country_name |-> Field(mainRoute, "destination_country_name", "notSelected"),
     destination_city_name |-> Field(mainRoute, "destination_city_name", "notSelected"),
     beginning_date |-> Field(mainRoute, "beginning_date", 0),
     beginning_time |-> Field(mainRoute, "beginning_time", 0),
     ending_date |-> Field(mainRoute, "ending_date", 0),
     ending_time |-> Field(mainRoute, "ending_time", 0),
     plane_needed |-> Field(mainRoute, "plane_needed", FALSE),
     hotel_needed |-> Field(mainRoute, "hotel_needed", FALSE)]

\* Statements of Applicant.createDraftTravelRequest: 1 INSERT Request, then
\* the route loop.
DraftStatements(savedDetails) ==
    1 + StatementsPerRoute * (1 + Len(savedDetails.additionalRoutes))

\* applicantModel.createDraftTravelRequest.  Its catch neither rolls back nor
\* releases: the statements before the failure stay in a transaction that is
\* never committed, so the committed tables are those of the snapshot.
ApplicantCreateDraftTravelRequest(s, userId, savedDetails, fail) ==
    LET failed == [db |-> s, requestId |-> 0,
                   error |-> "Database Error: Unable to fill Request table",
                   log |-> <<"Error creating draft travel request:">>]
    IN
    With(formatRoutes(DraftMainRoute(savedDetails.mainRoute),
                      savedDetails.additionalRoutes),
         LAMBDA allRoutes :
    With(getRequestDays(allRoutes), LAMBDA request_days :
    With(NewId(DOMAIN s.Request), LAMBDA requestId :
    LET row == [user_id |-> userId,
                request_status_id |-> Draft,
                notes |-> Field(savedDetails, "notes", ""),
                requested_fee |-> Field(savedDetails, "requested_fee", 0),
                imposed_fee |-> Field(savedDetails, "imposed_fee", 0),
                request_days |-> request_days,
                last_mod_date |-> 0]
    IN
    With([s EXCEPT !.Request = (requestId :> row) @@ @], LAMBDA d1 :
    IF fail = 1 THEN failed
    ELSE
    With(sortByRouterIndex(allRoutes), LAMBDA sortedRoutes :
    With(insertRoutes(s, d1, requestId, sortedRoutes, 1, LoopFail(fail, 1)), LAMBDA r :
    IF r.ok
    THEN [db |-> commit(s, r.db), requestId |-> requestId, error |-> "none",
          log |-> <<>>]
    ELSE [failed EXCEPT !.log = <<"Error processing route:">> \o @]))))))

ApplicantConfirmDraftAsApplicant(s, userId, requestId) ==
    IF userId \notin DOMAIN User
    THEN [db |-> s, error |-> "Database Error: Unable to confirm draft travel request"]
    ELSE [db |-> IF requestId \in DOMAIN s.Request
                 THEN [s EXCEPT !.Request[requestId].request_status_id =
                                    IF RoleStatus(User[userId]) = 0 THEN FirstReview
                                    ELSE RoleStatus(User[userId]),
                                !.Request[requestId].last_mod_date = CurrentTimestamp(@)]
                 ELSE s,
          error |-> "none"]

\* applicantModel.confirmDraftTravelRequest: SELECT role_id, UPDATE Request.
ApplicantConfirmDraftTravelRequest(s, userId, requestId) ==
    IF userId \notin DOMAIN User \/ RoleStatus(User[userId]) = 0
    THEN [db |-> s, error |-> "Database Error: Unable to confirm draft travel request"]
    ELSE [db |-> IF requestId \in DOMAIN s.Request
                 THEN [s EXCEPT !.Request[requestId].request_status_id =
                                    RoleStatus(User[userId]),
                                !.Request[requestId].last_mod_date = CurrentTimestamp(@)]
                 ELSE s,
          error |-> "none"]

\* The row of the view RequestWithRouteDetails for a request: its status and
\* the plane / hotel flags of its legs.  <<>> when the request has no row.
RequestWithRouteDetails(d, requestId) ==
    IF requestId \notin DOMAIN d.Request THEN <<>>
    ELSE <<[request_id |-> requestId,
            request_status_id |-> d.Request[requestId].request_status_id,
            hotel_needed_list |-> {d.Route[i].hotel_needed : i \in RouteIdsOf(d, requestId)},
            plane_needed_list |-> {d.Route[i].plane_needed : i \in RouteIdsOf(d, requestId)}]>>

\* mailData(request_id) reads rows[0] of the view: it throws when the request
\* has no row.  Mail then sends or throws.  The outcome of the pair.
Notify(d, requestId, mailOk) ==
    IF RequestWithRouteDetails(d, requestId) = <<>> THEN "nodata"
    ELSE IF mailOk THEN "sent" ELSE "failed"

SetStatusDroppingLinks(d, requestId, statusId) ==
    IF requestId \in DOMAIN d.Request
    THEN [d EXCEPT !.Request[requestId].request_status_id = statusId,
                   !.Route_Request = {l \in @ : l.request_id # requestId}]
    ELSE d

\* UPDATE Request SET request_status_id = ? WHERE request_id = ?
SetStatus(d, requestId, statusId) ==
    IF requestId \in DOMAIN d.Request
    THEN [d EXCEPT !.Request[requestId].request_status_id = statusId]
    ELSE d

\* authorizerModel.getUserRole: the role id, or 0 for null.
getUserRole(userId) == IF userId \in DOMAIN User THEN User[userId] ELSE 0

authorizeRequestAnyRole(d, request_id, user_id) ==
    LET role_id == getUserRole(user_id) IN
    IF role_id = 0 THEN [db |-> d, status |-> 404, message |-> "User not found"]
    ELSE IF role_id = 4
    THEN [db |-> SetStatus(d, request_id, SecondReview), status |-> 0, message |-> "ok"]
    ELSE [db |-> SetStatus(d, request_id, TripQuote), status |-> 0, message |-> "ok"]

\* authorizerService.authorizeRequest.
authorizeRequest(d, request_id, user_id) ==
    LET role_id == getUserRole(user_id) IN
    IF role_id = 0 THEN [db |-> d, status |-> 404, message |-> "User not found"]
    ELSE IF role_id = 4
    THEN [db |-> SetStatus(d, request_id, SecondReview), status |-> 0, message |-> "ok"]
    ELSE IF role_id = 5
    THEN [db |-> SetStatus(d, request_id, TripQuote), status |-> 0, message |-> "ok"]
    ELSE [db |-> d, status |-> 400,
          message |-> "User role not authorized to approve request"]

declineRequestAnyRole(d, request_id, user_id) ==
    LET role_id == getUserRole(user_id) IN
    IF role_id = 0 THEN [db |-> d, status |-> 404, message |-> "User not found"]
    ELSE [db |-> SetStatus(d, request_id, Declined), status |-> 0, message |-> "ok"]

declineRequestOffByOne(d, request_id, user_id) ==
    LET role_id == getUserRole(user_id) IN
    IF role_id = 0 THEN [db |-> d, status |-> 404, message |-> "User not found"]
    ELSE IF role_id \notin {4, 5}
    THEN [db |-> d, status |-> 400,
          message |-> "User role not authorized to decline request"]
    ELSE [db |-> SetStatus(d, request_id, Declined + 1), status |-> 0, message |-> "ok"]

\* authorizerService.declineRequest.
declineRequest(d, request_id, user_id) ==
    LET role_id == getUserRole(user_id) IN
    IF role_id = 0 THEN [db |-> d, status |-> 404, message |-> "User not found"]
    ELSE IF role_id \notin {4, 5}
    THEN [db |-> d, status |-> 400,
          message |-> "User role not authorized to decline request"]
    ELSE [db |-> SetStatus(d, request_id, Declined), status |-> 0, message |-> "ok"]

\* applicantModel.getRequestStatus: the status id, or 0 for null.
getRequestStatus(d, requestId) ==
    IF requestId \in DOMAIN d.Request THEN d.Request[requestId].request_status_id ELSE 0

cancelTravelRequestValidationLate(d, request_id) ==
    LET status_id == getRequestStatus(d, request_id) IN
    IF status_id = 0
    THEN [db |-> d, status |-> 404, message |-> "Travel request not found"]
    ELSE IF status_id \notin {1, 2, 3, 4, 5, 6, 9}
    THEN [db |-> d, status |-> 400, message |-> "Request cannot be cancelled"]
    ELSE IF status_id = 9
    THEN [db |-> d, status |-> 400, message |-> "Request has already been cancelled."]
    ELSE [db |-> SetStatus(d, request_id, Cancelled), status |-> 0, message |-> "ok"]

\* applicantService.cancelTravelRequestValidation.
cancelTravelRequestValidation(d, request_id) ==
    LET status_id == getRequestStatus(d, request_id) IN
    IF status_id = 0
    THEN [db |-> d, status |-> 404, message |-> "Travel request not found"]
    ELSE IF status_id \notin {1, 2, 3, 4, 5, 9}
    THEN [db |-> d, status |-> 400, message |-> "Request cannot be cancelled"]
    ELSE IF status_id = 9
    THEN [db |-> d, status |-> 400, message |-> "Request has already been cancelled."]
    ELSE [db |-> SetStatus(d, request_id, Cancelled), status |-> 0, message |-> "ok"]

sendReceiptsForValidationFromAgency(d, requestId) ==
    LET currentStatus == getRequestStatus(d, requestId) IN
    IF currentStatus = 0
    THEN [db |-> d, status |-> 404, message |-> "No request found"]
    ELSE IF currentStatus \notin {5, 6}
    THEN [db |-> d, status |-> 400, message |-> "Request must be in status 6"]
    ELSE [db |-> SetStatus(d, requestId, ReceiptValidation), status |-> 0, message |-> "ok"]

\* applicantService.sendReceiptsForValidation.
sendReceiptsForValidation(d, requestId) ==
    LET currentStatus == getRequestStatus(d, requestId) IN
    IF currentStatus = 0
    THEN [db |-> d, status |-> 404, message |-> "No request found"]
    ELSE IF currentStatus # 6
    THEN [db |-> d, status |-> 400, message |-> "Request must be in status 6"]
    ELSE [db |-> SetStatus(d, requestId, ReceiptValidation), status |-> 0, message |-> "ok"]

\* accountsPayableModel.getReceiptStatusesForRequest.
getReceiptStatusesForRequest(d, requestId) ==
    {d.Receipt[i].validation : i \in {j \in DOMAIN d.Receipt : d.Receipt[j].request_id = requestId}}

validateReceiptsStepBack(d, requestId) ==
    LET statuses == getReceiptStatusesForRequest(d, requestId) IN
    IF "Rechazado" \in statuses
    THEN [db |-> SetStatus(d, requestId, getRequestStatus(d, requestId) - 1),
          updatedStatus |-> 6]
    ELSE IF \A st \in statuses : st = "Aprobado"
    THEN [db |-> SetStatus(d, requestId, Finalized), updatedStatus |-> 8]
    ELSE [db |-> d, updatedStatus |-> 0]

validateReceiptsApprovedFirst(d, requestId) ==
    LET statuses == getReceiptStatusesForRequest(d, requestId) IN
    IF \A st \in statuses : st \in {"Aprobado", "Rechazado"}
    THEN [db |-> SetStatus(d, requestId, Finalized), updatedStatus |-> 8]
    ELSE IF "Rechazado" \in statuses
    THEN [db |-> SetStatus(d, requestId, ExpenseProof), updatedStatus |-> 6]
    ELSE [db |-> d, updatedStatus |-> 0]

\* accountsPayableService.validateReceiptsAndUpdateStatus; updatedStatus 0 = null.
validateReceiptsAndUpdateStatus(d, requestId) ==
    LET statuses == getReceiptStatusesForRequest(d, requestId) IN
    IF "Rechazado" \in statuses
    THEN [db |-> SetStatus(d, requestId, ExpenseProof), updatedStatus |-> 6]
    ELSE IF \A st \in statuses : st = "Aprobado"
    THEN [db |-> SetStatus(d, requestId, Finalized), updatedStatus |-> 8]
    ELSE [db |-> d, updatedStatus |-> 0]

\* accountsPayableModel.attendTravelRequest: one UPDATE of status and fee.
AccountsPayableAttendTravelRequest(d, requestId, imposedFee, newStatus) ==
    IF requestId \in DOMAIN d.Request
    THEN [d EXCEPT !.Request[requestId].request_status_id = newStatus,
                   !.Request[requestId].imposed_fee = imposedFee]
    ELSE d

\* ------------------------------------------------------------ handlers
\* What a handler reports: the operation, the request (or receipt) it was
\* called with, the outcome of its service or model call, the HTTP status of
\* the reply, the outcome of the notification, and what the model layer
\* wrote to console.error.
Response(op, request_id, result, http, mail) ==
    [op |-> op, request_id |-> request_id,
     result |-> result, http |-> http, mail |-> mail, log |-> <<>>]

\* HTTP status of a handler whose write succeeded, by the notification.
AfterMail(mail, success) == IF mail = "sent" THEN success ELSE 500

\* The callers whose calls may overlap, and a caller with no call in flight.
Callers == {1, 2}
Idle == [pc |-> "idle"]

\* No connection is checked out.
NoneHeld == [open |-> 0, done |-> 0]

\* pool.getConnection() resolves when a connection of the pool is free; the
\* call waits while none is.
getConnection == pool.open + pool.done < PoolSize

\* A handler whose model functions release, in a finally block, every
\* connection they acquire.
ConnectionsReturned == getConnection /\ pool' = pool

\* A handler whose model function acquires a connection, begins a
\* transaction and returns or throws without conn.release(): the connection
\* stays checked out, its transaction committed or left open.
ConnectionKept(committed) ==
    /\ getConnection
    /\ pool' = [pool EXCEPT ![IF committed THEN "done" ELSE "open"] = @ + 1]

Init ==
    /\ db = InitDb
    /\ response = Response("none", 0, "none", 0, "none")
    /\ calls = [c \in Callers |-> Idle]
    /\ pool = NoneHeld

\* applicantController.createTravelRequest.
createTravelRequest(userId, travelDetails, fail, mailOk) ==
    /\ NewId(DOMAIN db.Request) < Max(RequestIds)
    /\ ConnectionsReturned /\ UNCHANGED calls
    /\ \E r \in {ApplicantCreateTravelRequest(db, userId, travelDetails, fail)} :
       LET mail == Notify(r.db, r.requestId, mailOk) IN
       /\ db' = r.db
       /\ response' =
            IF r.error # "none"
            THEN [Response("createTravelRequest", 0, r.error, 500, "none")
                    EXCEPT !.log = r.log]
            ELSE Response("createTravelRequest", r.requestId, "ok",
                          AfterMail(mail, 201), mail)

\* applicantController.createDraftTravelRequest.
createDraftTravelRequest(userId, savedDetails, fail) ==
    /\ NewId(DOMAIN db.Request) < Max(RequestIds)
    /\ UNCHANGED calls
    /\ \E r \in {ApplicantCreateDraftTravelRequest(db, userId, savedDetails, fail)} :
       /\ ConnectionKept(r.error = "none")
       /\ db' = r.db
       /\ response' =
            IF r.error # "none"
            THEN [Response("createDraftTravelRequest", 0, r.error, 500, "none")
                    EXCEPT !.log = r.log]
            ELSE Response("createDraftTravelRequest", r.requestId, "ok", 201, "none")

\* The clock of the model stops after MaxStamps updates of a row.
ClockRuns(requestId) ==
    requestId \in DOMAIN db.Request => db.Request[requestId].last_mod_date < MaxStamps

\* applicantController.editTravelRequest.
editTravelRequest(travelRequestId, travelChanges, fail) ==
    ClockRuns(travelRequestId) /\
    ConnectionsReturned /\ UNCHANGED calls /\
    \E r \in {ApplicantEditTravelRequest(db, travelRequestId, travelChanges, fail)} :
    /\ db' = r.db
    /\ response' =
         IF r.error # "none"
         THEN [Response("editTravelRequest", travelRequestId, r.error, 500, "none")
                 EXCEPT !.log = r.log]
         ELSE Response("editTravelRequest", travelRequestId, "ok", 200, "none")

\* applicantController.confirmDraftTravelRequest.
confirmDraftTravelRequest(userId, requestId, mailOk) ==
    ClockRuns(requestId) /\
    UNCHANGED calls /\
    \E r \in {ApplicantConfirmDraftTravelRequest(db, userId, requestId)} :
    LET mail == Notify(r.db, requestId, mailOk) IN
    /\ ConnectionKept(r.error = "none")
    /\ db' = r.db
    /\ response' =
         IF r.error # "none"
         THEN Response("confirmDraftTravelRequest", requestId, r.error, 500, "none")
         ELSE Response("confirmDraftTravelRequest", requestId, "ok",
                       AfterMail(mail, 200), mail)

ServedUndoneByMailFailure(op, request_id, r, mailOk) ==
    ConnectionsReturned /\ UNCHANGED calls /\
    \E served \in {r} :
       LET mail == Notify(served.db, request_id, mailOk) IN
       /\ db' = IF mail = "failed" THEN db ELSE served.db
       /\ response' =
            IF served.status # 0
            THEN Response(op, request_id, served.message, served.status, "none")
            ELSE Response(op, request_id, "ok", AfterMail(mail, 200), mail)

\* A handler that calls a service and then notifies: the service's typed
\* failure is replied with its status, a notification failure with 500.
Served(op, request_id, r, mailOk) ==
    ConnectionsReturned /\ UNCHANGED calls /\
    \E served \in {r} :
       LET mail == Notify(served.db, request_id, mailOk) IN
       /\ db' = served.db
       /\ response' =
            IF served.status # 0
            THEN Response(op, request_id, served.message, served.status, "none")
            ELSE Response(op, request_id, "ok", AfterMail(mail, 200), mail)

\* authorizerController.authorizeTravelRequest.
authorizeTravelRequest(request_id, user_id, mailOk) ==
    Served("authorizeTravelRequest", request_id,
           authorizeRequest(db, request_id, user_id), mailOk)

\* authorizerController.declineTravelRequest.
declineTravelRequest(request_id, user_id, mailOk) ==
    Served("declineTravelRequest", request_id,
           declineRequest(db, request_id, user_id), mailOk)

\* applicantController.cancelTravelRequest.
cancelTravelRequest(request_id, mailOk) ==
    Served("cancelTravelRequest", request_id,
           cancelTravelRequestValidation(db, request_id), mailOk)

\* applicantController.sendExpenseValidation.
sendExpenseValidation(requestId, mailOk) ==
    Served("sendExpenseValidation", requestId,
           sendReceiptsForValidation(db, requestId), mailOk)

AttendNewStatusHotelOnly(request) ==
    IF TRUE \in request.hotel_needed_list THEN TravelAgency ELSE ExpenseProof

\* The status accounts payable advances a request to: the travel agency when
\* a leg needs a hotel or a plane, the expense proof otherwise.
AttendNewStatus(request) ==
    LET hotel == request.hotel_needed_list
        plane == request.plane_needed_list
    IN IF TRUE \in hotel \/ TRUE \in plane THEN TravelAgency ELSE ExpenseProof

\* accountsPayableController.attendTravelRequest.
attendTravelRequest(requestId, imposedFee, mailOk) ==
    ConnectionsReturned /\ UNCHANGED calls /\
    LET request == RequestWithRouteDetails(db, requestId) IN
    IF request = <<>>
    THEN /\ db' = db
         /\ response' = Response("attendTravelRequest", requestId,
                                 "Travel request not found", 404, "none")
    ELSE IF request[1].request_status_id # 4
    THEN /\ db' = db
         /\ response' = Response("attendTravelRequest", requestId,
                                 "This request cannot be attended by accounts payable",
                                 404, "none")
    ELSE LET newStatus == AttendNewStatus(request[1])
             d == AccountsPayableAttendTravelRequest(db, requestId, imposedFee, newStatus)
             mail == Notify(d, requestId, mailOk)
         IN /\ db' = d
            /\ response' = Response("attendTravelRequest", requestId, "ok",
                                    AfterMail(mail, 200), mail)

\* travelAgentModel.requestExists.
requestExists(d, requestId) == requestId \in DOMAIN d.Request

TravelAgentAttendEveryRequest(d, requestId) ==
    [d EXCEPT !.Request = [i \in DOMAIN @ |-> [@[i] EXCEPT !.request_status_id = ExpenseProof]]]

\* travelAgentModel.attendTravelRequest:
\* UPDATE Request SET request_status_id = 6 WHERE request_id = ?
TravelAgentAttendTravelRequest(d, requestId) == SetStatus(d, requestId, ExpenseProof)

\* result.affectedRows > 0 of the UPDATE: true when the row changes; when the
\* row already has status 6 the driver counts it or not, by a connection
\* option that is set outside the sources.
AffectedRows(d, requestId) ==
    IF d.Request[requestId].request_status_id = ExpenseProof THEN BOOLEAN ELSE {TRUE}

\* travelAgentController.attendTravelRequest.
travelAgentAttendTravelRequest(requestId, mailOk) ==
    ConnectionsReturned /\ UNCHANGED calls /\
    IF ~requestExists(db, requestId)
    THEN /\ db' = db
         /\ response' = Response("travelAgentAttendTravelRequest", requestId,
                                 "Travel request not found", 404, "none")
    ELSE \E updated \in AffectedRows(db, requestId) :
         IF ~updated
         THEN /\ db' = db
              /\ response' = Response("travelAgentAttendTravelRequest", requestId,
                                      "Failed to update travel request status", 400, "none")
         ELSE LET d == TravelAgentAttendTravelRequest(db, requestId)
                  mail == Notify(d, requestId, mailOk)
              IN /\ db' = d
                 /\ response' = Response("travelAgentAttendTravelRequest", requestId, "ok",
                                         AfterMail(mail, 200), mail)

\* accountsPayableController.validateReceiptsHandler.
validateReceiptsHandler(requestId, mailOk) ==
    ConnectionsReturned /\ UNCHANGED calls /\
    \E result \in {validateReceiptsAndUpdateStatus(db, requestId)} :
    LET mail == Notify(result.db, requestId, mailOk)
        reported == IF result.updatedStatus = 6 THEN "6"
                    ELSE IF result.updatedStatus = 8 THEN "8" ELSE "pending"
    IN /\ db' = result.db
       /\ response' = Response("validateReceiptsHandler", requestId, reported,
                               AfterMail(mail, 200), mail)

\* ------------------------------------------------------------ receipts
\* Items of a receipts array: complete for request 2, complete for a request
\* that has no row, and without a numeric amount.
ReceiptItems ==
    { [receipt_type_id |-> 1, request_id |-> 2, amount |-> 50],
      [receipt_type_id |-> 1, request_id |-> 3, amount |-> 50],
      [receipt_type_id |-> 1, request_id |-> 2] }

ReceiptBatches == SeqsUpTo(ReceiptItems, MaxBatch)

\* Request bodies: one per receipts array, and one whose `receipts` is not
\* an array (the field is absent).
ReceiptBodies == {[receipts |-> b] : b \in ReceiptBatches} \cup {[comment |-> "none"]}

\* Array.isArray(req.body.receipts)
IsArray(body) == "receipts" \in DOMAIN body

\* typeof r.f === "number"
IsNumber(r, f) == f \in DOMAIN r

\* applicantModel.createExpenseBatch: one INSERT per item in one transaction;
\* statement `fail` throws.  A new row's validation is the column default.
RECURSIVE insertReceipts(_, _, _, _, _)
insertReceipts(s, d, receipts, i, fail) ==
    IF i > Len(receipts) THEN Ok(d)
    ELSE IF fail = i \/ ~ForeignKeyHolds(d, receipts[i].request_id) THEN Thrown(d)
    ELSE LET receiptId == NewId(DOMAIN d.Receipt \cup DOMAIN s.Receipt)
             row == [receipt_type_id |-> receipts[i].receipt_type_id,
                     request_id |-> receipts[i].request_id,
                     amount |-> receipts[i].amount,
                     validation |-> "Pendiente",
                     pdf_file_id |-> 0, xml_file_id |-> 0]
         IN With([d EXCEPT !.Receipt = (receiptId :> row) @@ @],
                 LAMBDA d1 : insertReceipts(s, d1, receipts, i + 1, fail))

createExpenseBatch(s, receipts, fail) ==
    With(insertReceipts(s, s, receipts, 1, fail), LAMBDA r :
    IF r.ok THEN [db |-> commit(s, r.db), count |-> Len(receipts), error |-> "none"]
    ELSE [db |-> rollback(s, r.db), count |-> 0, error |-> "store"])

\* The service of a batch that validates while it inserts: the rows before
\* the first bad item are kept.
createExpenseValidationBatchLate(s, body, fail) ==
    IF ~IsArray(body) \/ Len(body.receipts) = 0
    THEN [db |-> s, count |-> 0, error |-> "BAD_REQUEST"]
    ELSE LET receipts == body.receipts
             bad == {i \in 1..Len(receipts) :
                       ~(IsNumber(receipts[i], "receipt_type_id")
                         /\ IsNumber(receipts[i], "request_id")
                         /\ IsNumber(receipts[i], "amount"))}
         IN IF bad = {} THEN createExpenseBatch(s, receipts, fail)
            ELSE [db |-> createExpenseBatch(s, SubSeq(receipts, 1, (CHOOSE i \in bad : \A j \in bad : i <= j) - 1), 0).db,
                  count |-> 0, error |-> "BAD_REQUEST"]

\* applicantService.createExpenseValidationBatch, called with req.body.receipts.
createExpenseValidationBatch(s, body, fail) ==
    IF ~IsArray(body) \/ Len(body.receipts) = 0
    THEN [db |-> s, count |-> 0, error |-> "BAD_REQUEST"]
    ELSE IF \E i \in 1..Len(body.receipts) :
              ~(IsNumber(body.receipts[i], "receipt_type_id")
                /\ IsNumber(body.receipts[i], "request_id")
                /\ IsNumber(body.receipts[i], "amount"))
    THEN [db |-> s, count |-> 0, error |-> "BAD_REQUEST"]
    ELSE createExpenseBatch(s, body.receipts, fail)

\* applicantController.createExpenseValidationHandler.
createExpenseValidationHandler(body, fail) ==
    ConnectionsReturned /\ UNCHANGED calls /\
    \E r \in {createExpenseValidationBatch(db, body, fail)} :
       /\ db' = r.db
       /\ response' =
            IF r.error = "BAD_REQUEST"
            THEN Response("createExpenseValidationHandler", 0, r.error, 400, "none")
            ELSE IF r.error # "none"
            THEN Response("createExpenseValidationHandler", 0, r.error, 500, "none")
            ELSE Response("createExpenseValidationHandler", r.count, "ok", 201, "none")

ValidationOfZeroBased(index) == <<"Pendiente", "Aprobado", "Rechazado">>[index - 1]

\* The Receipt.validation value written by `SET validation = ?` with an index.
ValidationOf(index) == <<"Pendiente", "Aprobado", "Rechazado">>[index]

\* accountsPayableModel.receiptExists: the rows of the receipt, <<>> for none.
receiptExists(d, receiptId) ==
    IF receiptId \in DOMAIN d.Receipt THEN <<d.Receipt[receiptId]>> ELSE <<>>

AccountsPayableValidateReceiptReevaluating(d, receiptId, approval) ==
    IF receiptId \in DOMAIN d.Receipt
    THEN [db |-> validateReceiptsAndUpdateStatus(
                     [d EXCEPT !.Receipt[receiptId].validation = ValidationOf(approval)],
                     d.Receipt[receiptId].request_id).db,
          updated |-> TRUE]
    ELSE [db |-> d, updated |-> FALSE]

\* accountsPayableModel.validateReceipt: UPDATE Receipt SET validation = ?
\* WHERE receipt_id = ?; the tables and whether a row was affected.
AccountsPayableValidateReceipt(d, receiptId, approval) ==
    IF receiptId \in DOMAIN d.Receipt
    THEN [db |-> [d EXCEPT !.Receipt[receiptId].validation = ValidationOf(approval)],
          updated |-> TRUE]
    ELSE [db |-> d, updated |-> FALSE]

\* accountsPayableController.validateReceipt.
validateReceipt(receiptId, approval) ==
    ConnectionsReturned /\ UNCHANGED calls /\
    IF approval # 0 /\ approval # 1
    THEN /\ db' = db
         /\ response' = Response("validateReceipt", receiptId, "Invalid input", 400, "none")
    ELSE \E receipt \in {receiptExists(db, receiptId)} :
    IF receipt = <<>>
    THEN /\ db' = db
         /\ response' = Response("validateReceipt", receiptId, "Receipt not found",
                                 404, "none")
    ELSE IF receipt[1].validation # "Pendiente"
    THEN /\ db' = db
         /\ response' = Response("validateReceipt", receiptId,
                                 "Receipt already approved or rejected", 404, "none")
    ELSE \E r \in {AccountsPayableValidateReceipt(db, receiptId, 3 - approval)} :
         /\ db' = r.db
         /\ response' =
              IF r.updated
              THEN Response("validateReceipt", receiptId, "ok", 200, "none")
              ELSE Response("validateReceipt", receiptId,
                            "Failed to update travel request status", 400, "none")

\* ------------------------------------------------------- specifications
\* The imposed fee accounts payable sends.
FeeInputs == {30}

ReceiptIds == 1..(MaxBatch + 2)

\* Callers of create in the lifecycle specification: a requester, a user
\* whose role may not create, a user without a row.
Creators == {1, 4, 6}

\* Payloads of the lifecycle specification: a single leg, or legs in the
\* order of their index with a hotel on every additional one.
LeanDetails ==
    {t \in TravelDetails :
        \A i \in DOMAIN t.additionalRoutes :
            t.mainRoute.router_index = 1 /\ t.additionalRoutes[i].router_index = 3}

\* Room in the Receipt table for a batch, the table holding at most `cap` rows.
Room(b, cap) == Cardinality(DOMAIN db.Receipt) + Len(b) <= cap

\* The statements of a body's batch.
BatchLen(body) == IF IsArray(body) THEN Len(body.receipts) ELSE 0

\* Callers of decline and confirm-draft where the caller's role is not the
\* point: a requester and the two authorizers.
Deciders == {1, 2, 3}

\* The payload of edit in the lifecycle specification: a single leg.
ShortDetails == {t \in LeanDetails : t.mainRoute.router_index = 2}

\* The whole lifecycle, every handler, without notification failures; the
\* store may fail at the last statement of a transaction.
Next ==
    \/ \E u \in Creators, t \in LeanDetails :
         \E fail \in {0, CreateStatements(t)} : createTravelRequest(u, t, fail, TRUE)
    \/ \E t \in LeanDetails :
         \E fail \in {0, DraftStatements(t)} : createDraftTravelRequest(1, t, fail)
    \/ \E r \in RequestIds, t \in ShortDetails :
         \E fail \in {0, EditStatements(db, r, t)} : editTravelRequest(r, t, fail)
    \/ \E u \in Creators, r \in RequestIds : confirmDraftTravelRequest(u, r, TRUE)
    \/ \E r \in RequestIds, u \in Deciders : authorizeTravelRequest(r, u, TRUE)
    \/ \E r \in RequestIds, u \in Deciders : declineTravelRequest(r, u, TRUE)
    \/ \E r \in RequestIds : cancelTravelRequest(r, TRUE)
    \/ \E r \in RequestIds, f \in FeeInputs : attendTravelRequest(r, f, TRUE)
    \/ \E r \in RequestIds : travelAgentAttendTravelRequest(r, TRUE)
    \/ \E r \in RequestIds : sendExpenseValidation(r, TRUE)
    \/ \E b \in {<<[receipt_type_id |-> 1, request_id |-> 2, amount |-> 50]>>} :
         Room(b, 2) /\ createExpenseValidationHandler([receipts |-> b], 0)
    \/ \E i \in ReceiptIds, approval \in {0, 1} : validateReceipt(i, approval)
    \/ \E r \in RequestIds : validateReceiptsHandler(r, TRUE)

Spec == Init /\ [][Next]_vars

\* Create, create-draft and edit with a store failure at every statement.
NextPersist ==
    \/ \E u \in Creators, t \in TravelDetails :
         \E fail \in 0..CreateStatements(t) : createTravelRequest(u, t, fail, TRUE)
    \/ \E t \in DraftDetails :
         \E fail \in 0..DraftStatements(t) : createDraftTravelRequest(1, t, fail)
    \/ \E r \in RequestIds, t \in TravelDetails :
         \E fail \in 0..EditStatements(db, r, t) : editTravelRequest(r, t, fail)

SpecPersist == Init /\ [][NextPersist]_vars

\* The status transitions of a request, from its creation on.
NextStatus ==
    \/ \E u \in UserIds, t \in LeanDetails : createTravelRequest(u, t, 0, TRUE)
    \/ \E t \in LeanDetails : createDraftTravelRequest(1, t, 0)
    \/ \E u \in UserIds, r \in RequestIds : confirmDraftTravelRequest(u, r, TRUE)
    \/ \E r \in RequestIds, u \in UserIds : authorizeTravelRequest(r, u, TRUE)
    \/ \E r \in RequestIds, u \in UserIds : declineTravelRequest(r, u, TRUE)
    \/ \E r \in RequestIds : cancelTravelRequest(r, TRUE)
    \/ \E r \in RequestIds, f \in FeeInputs : attendTravelRequest(r, f, TRUE)
    \/ \E r \in RequestIds : travelAgentAttendTravelRequest(r, TRUE)
    \/ \E r \in RequestIds : sendExpenseValidation(r, TRUE)
    \/ \E r \in RequestIds : validateReceiptsHandler(r, TRUE)

SpecStatus == Init /\ [][NextStatus]_vars

\* The status transitions with a mail transport that may fail.
NextMail ==
    \/ \E u \in Creators, t \in LeanDetails, mailOk \in BOOLEAN :
         createTravelRequest(u, t, 0, mailOk)
    \/ \E t \in LeanDetails : createDraftTravelRequest(1, t, 0)
    \/ \E u \in Creators, r \in RequestIds, mailOk \in BOOLEAN :
         confirmDraftTravelRequest(u, r, mailOk)
    \/ \E r \in RequestIds, u \in Deciders, mailOk \in BOOLEAN :
         authorizeTravelRequest(r, u, mailOk)
    \/ \E r \in RequestIds, u \in Deciders, mailOk \in BOOLEAN :
         declineTravelRequest(r, u, mailOk)
    \/ \E r \in RequestIds, mailOk \in BOOLEAN : cancelTravelRequest(r, mailOk)
    \/ \E r \in RequestIds, f \in FeeInputs, mailOk \in BOOLEAN :
         attendTravelRequest(r, f, mailOk)
    \/ \E r \in RequestIds, mailOk \in BOOLEAN : travelAgentAttendTravelRequest(r, mailOk)
    \/ \E r \in RequestIds, mailOk \in BOOLEAN : sendExpenseValidation(r, mailOk)
    \/ \E r \in RequestIds, mailOk \in BOOLEAN : validateReceiptsHandler(r, mailOk)

SpecMail == Init /\ [][NextMail]_vars

\* The lifecycle of requests that a requester (user 1, role 1) submits, when
\* no level-1 authorizer (role 4) ever calls authorize.
NextUnreviewed ==
    \/ \E t \in LeanDetails : createTravelRequest(1, t, 0, TRUE)
    \/ \E u \in UserIds, r \in RequestIds : confirmDraftTravelRequest(u, r, TRUE)
    \/ \E r \in RequestIds, u \in UserIds :
         getUserRole(u) # 4 /\ authorizeTravelRequest(r, u, TRUE)
    \/ \E r \in RequestIds, u \in UserIds : declineTravelRequest(r, u, TRUE)
    \/ \E r \in RequestIds : cancelTravelRequest(r, TRUE)
    \/ \E r \in RequestIds, f \in FeeInputs : attendTravelRequest(r, f, TRUE)
    \/ \E r \in RequestIds : travelAgentAttendTravelRequest(r, TRUE)
    \/ \E r \in RequestIds : sendExpenseValidation(r, TRUE)
    \/ \E r \in RequestIds : validateReceiptsHandler(r, TRUE)

SpecUnreviewed == Init /\ [][NextUnreviewed]_vars

\* An additional leg that comes first by its index and last by its dates.
LateLegFirst ==
    [router_index |-> 0,
     origin_country_name |-> "Canada", origin_city_name |-> "Vancouver",
     destination_country_name |-> "Mexico", destination_city_name |-> "CDMX",
     beginning_date |-> 102, beginning_time |-> 0,
     ending_date |-> 103, ending_time |-> 0]

\* Payloads whose legs are or are not in the order of their dates.
UnorderedDetails ==
    { Fees(m) @@ [mainRoute |-> m, additionalRoutes |-> a] :
        m \in MainRoutes,
        a \in SeqsUpTo(AdditionalRoutes \cup {LateLegFirst}, MaxAdditionalRoutes) }

\* Create, create-draft and edit with legs in any order, the store working.
NextDays ==
    \/ \E u \in Creators, t \in UnorderedDetails : createTravelRequest(u, t, 0, TRUE)
    \/ \E t \in UnorderedDetails : createDraftTravelRequest(1, t, 0)
    \/ \E r \in RequestIds, t \in UnorderedDetails : editTravelRequest(r, t, 0)

SpecDays == Init /\ [][NextDays]_vars

\* Request 2 in the store with one leg and a given status.
WithRequest(statusId) ==
    [InitDb EXCEPT
       !.Request = (2 :> [user_id |-> 1, request_status_id |-> statusId,
                          notes |-> "first", requested_fee |-> 0, imposed_fee |-> 30,
                          request_days |-> 1, last_mod_date |-> 0]) @@ @,
       !.Route = (2 :> SeedRoute[1]) @@ @,
       !.Route_Request = @ \cup {[request_id |-> 2, route_id |-> 2]}]

InitReceipts ==
    /\ \E statusId \in Draft..Declined : db = WithRequest(statusId)
    /\ response = Response("none", 0, "none", 0, "none")
    /\ calls = [c \in Callers |-> Idle]
    /\ pool = NoneHeld

\* The receipts of a request and its reevaluation.
NextReceipts ==
    \/ \E body \in ReceiptBodies : \E fail \in 0..BatchLen(body) :
         /\ IsArray(body) => Room(body.receipts, MaxBatch + 1)
         /\ createExpenseValidationHandler(body, fail)
    \/ \E i \in ReceiptIds, approval \in {0, 1, 2} : validateReceipt(i, approval)
    \/ \E r \in RequestIds : validateReceiptsHandler(r, TRUE)
    \/ \E r \in RequestIds : sendExpenseValidation(r, TRUE)

SpecReceipts == InitReceipts /\ [][NextReceipts]_vars

\* ------------------------------------------------- overlapping calls
\* accountsPayableController.validateReceipt up to its first await: caller c
\* has read the receipt and waits for the store.
validateReceiptRead(c, receiptId, approval) ==
    /\ calls[c] = Idle
    /\ approval \in {0, 1}
    /\ calls' = [calls EXCEPT ![c] = [pc |-> "validateReceipt",
                                      receiptId |-> receiptId,
                                      approval |-> approval,
                                      receipt |-> receiptExists(db, receiptId)]]
    /\ UNCHANGED <<db, response, pool>>

\* The rest of the handler: it decides on the receipt as it was read.
validateReceiptDecide(c) ==
    /\ calls[c].pc = "validateReceipt"
    /\ calls' = [calls EXCEPT ![c] = Idle]
    /\ UNCHANGED pool
    /\ \E call \in {calls[c]} :
       IF call.receipt = <<>>
       THEN /\ db' = db
            /\ response' = Response("validateReceipt", call.receiptId,
                                    "Receipt not found", 404, "none")
       ELSE IF call.receipt[1].validation # "Pendiente"
       THEN /\ db' = db
            /\ response' = Response("validateReceipt", call.receiptId,
                                    "Receipt already approved or rejected", 404, "none")
       ELSE \E r \in {AccountsPayableValidateReceipt(db, call.receiptId,
                                                     3 - call.approval)} :
            /\ db' = r.db
            /\ response' =
                 IF r.updated
                 THEN Response("validateReceipt", call.receiptId, "ok", 200, "none")
                 ELSE Response("validateReceipt", call.receiptId,
                               "Failed to update travel request status", 400, "none")

\* Request 2 awaits the validation of its receipt 2, which is pending.
WithPendingReceipt ==
    [WithRequest(ReceiptValidation) EXCEPT
       !.Receipt = (2 :> [receipt_type_id |-> 1, request_id |-> 2, amount |-> 50,
                          validation |-> "Pendiente",
                          pdf_file_id |-> 0, xml_file_id |-> 0]) @@ @]

InitValidateRace ==
    /\ db = WithPendingReceipt
    /\ response = Response("none", 0, "none", 0, "none")
    /\ calls = [c \in Callers |-> Idle]
    /\ pool = NoneHeld

\* Decisions on receipts by callers whose handlers overlap.
NextValidateRace ==
    \/ \E c \in Callers, i \in ReceiptIds, approval \in {0, 1} :
         validateReceiptRead(c, i, approval)
    \/ \E c \in Callers : validateReceiptDecide(c)

SpecValidateRace == InitValidateRace /\ [][NextValidateRace]_vars

\* ------------------------------------------- overlapping guarded transitions
\* A guarded handler up to the await of its read: caller c holds the store as
\* the SELECT of the handler returned it.
GuardedRead(c, op, requestId, imposedFee) ==
    /\ calls[c] = Idle
    /\ calls' = [calls EXCEPT ![c] = [pc |-> op, requestId |-> requestId,
                                      imposedFee |-> imposedFee, seen |-> db]]
    /\ UNCHANGED <<db, response, pool>>

\* The rest of a guarded handler: the outcome r of the service on the store
\* as it was read decides; the UPDATE runs on the store as it is now.
GuardedWrite(c, r, written) ==
    /\ calls' = [calls EXCEPT ![c] = Idle]
    /\ UNCHANGED pool
    /\ IF r.status # 0
       THEN /\ db' = db
            /\ response' = Response(calls[c].pc, calls[c].requestId, r.message,
                                    r.status, "none")
       ELSE /\ db' = written
            /\ response' = Response(calls[c].pc, calls[c].requestId, "ok", 200, "sent")

\* applicantService.cancelTravelRequestValidation up to getRequestStatus.
cancelTravelRequestRead(c, request_id) ==
    GuardedRead(c, "cancelTravelRequest", request_id, 0)

\* ... and from its checks on: Applicant.cancelTravelRequest and the reply.
cancelTravelRequestWrite(c) ==
    /\ calls[c].pc = "cancelTravelRequest"
    /\ \E call \in {calls[c]} :
         GuardedWrite(c, cancelTravelRequestValidation(call.seen, call.requestId),
                      SetStatus(db, call.requestId, Cancelled))

\* applicantService.sendReceiptsForValidation up to getRequestStatus.
sendExpenseValidationRead(c, requestId) ==
    GuardedRead(c, "sendExpenseValidation", requestId, 0)

\* ... and from its checks on: updateRequestStatusToValidationStage.
sendExpenseValidationWrite(c) ==
    /\ calls[c].pc = "sendExpenseValidation"
    /\ \E call \in {calls[c]} :
         GuardedWrite(c, sendReceiptsForValidation(call.seen, call.requestId),
                      SetStatus(db, call.requestId, ReceiptValidation))

\* accountsPayableController.attendTravelRequest up to requestExists.
attendTravelRequestRead(c, requestId, imposedFee) ==
    GuardedRead(c, "attendTravelRequest", requestId, imposedFee)

\* ... and from its checks on: AccountsPayable.attendTravelRequest with the
\* status chosen from the row that was read.
attendTravelRequestWrite(c) ==
    /\ calls[c].pc = "attendTravelRequest"
    /\ \E call \in {calls[c]} :
       \E request \in {RequestWithRouteDetails(call.seen, call.requestId)} :
         IF request = <<>>
         THEN GuardedWrite(c, [status |-> 404, message |-> "Travel request not found"], db)
         ELSE IF request[1].request_status_id # 4
         THEN GuardedWrite(c, [status |-> 404,
                               message |-> "This request cannot be attended by accounts payable"],
                           db)
         ELSE GuardedWrite(c, [status |-> 0, message |-> "ok"],
                           AccountsPayableAttendTravelRequest(
                               db, call.requestId, call.imposedFee,
                               AttendNewStatus(request[1])))

InitGuardRace ==
    /\ \E statusId \in Draft..Declined : db = WithRequest(statusId)
    /\ response = Response("none", 0, "none", 0, "none")
    /\ calls = [c \in Callers |-> Idle]
    /\ pool = NoneHeld

\* Cancel, accounts-payable attend and send-for-validation of request 2 by
\* callers whose handlers overlap, among the unguarded status operations.
NextGuardRace ==
    \/ \E c \in Callers : cancelTravelRequestRead(c, 2)
    \/ \E c \in Callers : cancelTravelRequestWrite(c)
    \/ \E c \in Callers, f \in FeeInputs : attendTravelRequestRead(c, 2, f)
    \/ \E c \in Callers : attendTravelRequestWrite(c)
    \/ \E c \in Callers : sendExpenseValidationRead(c, 2)
    \/ \E c \in Callers : sendExpenseValidationWrite(c)
    \/ \E u \in {2, 3} : authorizeTravelRequest(2, u, TRUE)
    \/ travelAgentAttendTravelRequest(2, TRUE)

SpecGuardRace == InitGuardRace /\ [][NextGuardRace]_vars

\* ------------------------------------------------------ overlapping edits
\* The Request row is locked against caller c: the transaction of another
\* caller has run UPDATE Request on it and has not committed yet.
RowLocked(c, requestId) ==
    \E o \in Callers \ {c} :
        calls[o].pc = "editUpdated" /\ calls[o].requestId = requestId

ReplaceRoutesKeepingOld(d, requestId, travelChanges, oldRoutesIds) ==
    With(formatRoutes(travelChanges.mainRoute, travelChanges.additionalRoutes),
         LAMBDA allRoutes :
    With([d EXCEPT !.Request[requestId].notes = travelChanges.notes,
                   !.Request[requestId].last_mod_date = CurrentTimestamp(@),
                   !.Route_Request = {l \in @ : l.request_id # requestId}],
         LAMBDA d3 :
    commit(d, insertRoutes(d, d3, requestId, sortByRouterIndex(allRoutes), 1,
                           <<0, 0>>).db)))

\* applicantModel.editTravelRequest from its DELETEs to its commit, with the
\* UPDATE of the Request row that the commit makes visible: the links of the
\* request and the routes in oldRoutesIds go, the legs of the payload come.
ReplaceRoutes(d, requestId, travelChanges, oldRoutesIds) ==
    With(formatRoutes(travelChanges.mainRoute, travelChanges.additionalRoutes),
         LAMBDA allRoutes :
    With(getRequestDays(allRoutes), LAMBDA request_days :
    With([d EXCEPT !.Request[requestId].notes = travelChanges.notes,
                   !.Request[requestId].requested_fee =
                       Field(travelChanges, "requested_fee", 0),
                   !.Request[requestId].imposed_fee =
                       Field(travelChanges, "imposed_fee", 0),
                   !.Request[requestId].request_days = request_days,
                   !.Request[requestId].last_mod_date = CurrentTimestamp(@),
                   !.Route_Request = {l \in @ : l.request_id # requestId},
                   !.Route = Without(@, oldRoutesIds)],
         LAMBDA d4 :
    commit(d, insertRoutes(d, d4, requestId, sortByRouterIndex(allRoutes), 1,
                           <<0, 0>>).db))))

\* applicantModel.editTravelRequest up to beginTransaction and formatRoutes:
\* caller c holds a connection and has sent no statement yet.
editTravelRequestBegin(c, requestId, travelChanges) ==
    /\ calls[c] = Idle
    /\ getConnection
    /\ calls' = [calls EXCEPT ![c] = [pc |-> "editBegun", requestId |-> requestId,
                                      travelChanges |-> travelChanges]]
    /\ pool' = [pool EXCEPT !.open = @ + 1]
    /\ UNCHANGED <<db, response>>

\* UPDATE Request, which waits while the row is locked and then locks it,
\* and SELECT route_id FROM Route_Request.
editTravelRequestUpdate(c) ==
    /\ calls[c].pc = "editBegun"
    /\ ~RowLocked(c, calls[c].requestId)
    /\ db.Request[calls[c].requestId].last_mod_date < MaxStamps
    /\ calls' = [calls EXCEPT ![c] =
                   [@ EXCEPT !.pc = "editUpdated"]
                   @@ [oldRoutesIds |-> RouteIdsOf(db, calls[c].requestId)]]
    /\ UNCHANGED <<db, response, pool>>

\* The DELETEs, the route loop and the commit, which unlocks the row; the
\* finally block releases the connection.
editTravelRequestReplace(c) ==
    /\ calls[c].pc = "editUpdated"
    /\ calls' = [calls EXCEPT ![c] = Idle]
    /\ pool' = [pool EXCEPT !.open = @ - 1]
    /\ \E call \in {calls[c]} :
         db' = ReplaceRoutes(db, call.requestId, call.travelChanges, call.oldRoutesIds)
    /\ response' = Response("editTravelRequest", calls[c].requestId, "ok", 200, "none")

\* Request 2 waits for its first review with one leg.
InitEditRace ==
    /\ db = WithRequest(FirstReview)
    /\ response = Response("none", 0, "none", 0, "none")
    /\ calls = [c \in Callers |-> Idle]
    /\ pool = NoneHeld

\* Edits of request 2 by callers whose transactions overlap.
NextEditRace ==
    \/ \E c \in Callers, t \in LeanDetails : editTravelRequestBegin(c, 2, t)
    \/ \E c \in Callers : editTravelRequestUpdate(c)
    \/ \E c \in Callers : editTravelRequestReplace(c)

SpecEditRace == InitEditRace /\ [][NextEditRace]_vars

\* ------------------------------------------------------- receipt files
\* db.Files is the GridFS bucket: the ids of the files it holds.  A receipt
\* row names its files by pdf_file_id and xml_file_id, 0 for NULL.

\* fileStorage.uploadFile twice, then UPDATE Receipt SET pdf_file_id = ?,
\* xml_file_id = ? WHERE receipt_id = ?.
uploadReceiptFiles(d, receiptId) ==
    LET pdf == NewId(d.Files)
        xml == NewId(d.Files \cup {pdf})
        stored == [d EXCEPT !.Files = @ \cup {pdf, xml}]
    IN IF receiptId \in DOMAIN d.Receipt
       THEN [stored EXCEPT !.Receipt[receiptId].pdf_file_id = pdf,
                           !.Receipt[receiptId].xml_file_id = xml]
       ELSE stored

\* fileController.uploadReceiptFilesController; files are the fields of the
\* multipart body.
uploadReceiptFilesController(receiptId, files) ==
    /\ Cardinality(db.Files) < MaxFiles
    /\ ConnectionsReturned /\ UNCHANGED calls
    /\ IF {"pdf", "xml"} \subseteq files
       THEN /\ db' = uploadReceiptFiles(db, receiptId)
            /\ response' = Response("uploadReceiptFilesController", receiptId, "ok", 201, "none")
       ELSE /\ db' = db
            /\ response' = Response("uploadReceiptFilesController", receiptId,
                                    "Both PDF and XML files are required", 400, "none")

\* bucket.delete(new ObjectId(fileId)) inside its try / catch: the bucket and
\* what console.error got.  The delete throws when the transport fails
\* (deleteOk is false) or the bucket has no such file.
bucketDelete(r, fileId, deleteOk, what) ==
    IF fileId = 0 THEN r
    ELSE IF deleteOk /\ fileId \in r.db.Files
    THEN [r EXCEPT !.db.Files = @ \ {fileId}]
    ELSE [r EXCEPT !.log = Append(@, what)]

deleteReceiptFilesEscalating(d, receiptId, pdfOk, xmlOk, fail) ==
    IF fail = 1 THEN [db |-> d, error |-> "store", log |-> <<>>]
    ELSE IF receiptId \notin DOMAIN d.Receipt
    THEN [db |-> d, error |-> "Receipt not found", log |-> <<>>]
    ELSE With(bucketDelete(
                bucketDelete([db |-> d, error |-> "none", log |-> <<>>],
                             d.Receipt[receiptId].pdf_file_id, pdfOk, "Error deleting PDF file"),
                d.Receipt[receiptId].xml_file_id, xmlOk, "Error deleting XML file"),
              LAMBDA r : IF r.log = <<>> THEN r ELSE [r EXCEPT !.error = "blob"])

\* receiptFileService.deleteReceiptFiles; statement 1 is its SELECT.
deleteReceiptFiles(d, receiptId, pdfOk, xmlOk, fail) ==
    IF fail = 1 THEN [db |-> d, error |-> "store", log |-> <<>>]
    ELSE IF receiptId \notin DOMAIN d.Receipt
    THEN [db |-> d, error |-> "Receipt not found", log |-> <<>>]
    ELSE bucketDelete(
           bucketDelete([db |-> d, error |-> "none", log |-> <<>>],
                        d.Receipt[receiptId].pdf_file_id, pdfOk, "Error deleting PDF file"),
           d.Receipt[receiptId].xml_file_id, xmlOk, "Error deleting XML file")

\* Statements of a receipt deletion: the SELECT of deleteReceiptFiles, then
\* SELECT, DELETE and commit of applicantModel.deleteReceipt.
DeleteStatements == 4

\* applicantModel.deleteReceipt: one transaction.
ApplicantDeleteReceipt(s, receiptId, fail) ==
    IF fail = 2 THEN [db |-> rollback(s, s), error |-> "store"]
    ELSE IF receiptId \notin DOMAIN s.Receipt
    THEN [db |-> rollback(s, s), error |-> "Receipt not found"]
    ELSE With([s EXCEPT !.Receipt = [i \in DOMAIN @ \ {receiptId} |-> @[i]]], LAMBDA d :
         IF fail \in {3, 4} THEN [db |-> rollback(s, d), error |-> "store"]
         ELSE [db |-> commit(s, d), error |-> "none"])

\* applicantController.deleteReceipt.
deleteReceipt(receipt_id, pdfOk, xmlOk, fail) ==
    ConnectionsReturned /\ UNCHANGED calls /\
    \E files \in {deleteReceiptFiles(db, receipt_id, pdfOk, xmlOk, fail)} :
    \E r \in {IF files.error # "none" THEN [db |-> files.db, error |-> files.error]
              ELSE ApplicantDeleteReceipt(files.db, receipt_id, fail)} :
       /\ db' = r.db
       /\ response' =
            [Response("deleteReceipt", receipt_id,
                      IF r.error = "none" THEN "ok" ELSE r.error,
                      IF r.error = "none" THEN 200
                      ELSE IF r.error = "Receipt not found" THEN 404 ELSE 500,
                      "none")
               EXCEPT !.log = files.log]

\* The receipts whose files are uploaded and deleted: the one a run creates
\* for request 2, and one that has no row.
FileReceiptIds == {2, 3}

\* A receipt of request 2 with its files: created, uploaded to, deleted.
NextFiles ==
    \/ \E b \in ReceiptBatches :
         Len(b) = 1 /\ Room(b, 2) /\ createExpenseValidationHandler([receipts |-> b], 0)
    \/ \E i \in FileReceiptIds, files \in SUBSET {"pdf", "xml"} :
         uploadReceiptFilesController(i, files)
    \/ \E i \in FileReceiptIds, pdfOk \in BOOLEAN, xmlOk \in BOOLEAN :
         \E fail \in 0..DeleteStatements : deleteReceipt(i, pdfOk, xmlOk, fail)

\* Request 2 is waiting for its expense proof; no file is stored yet.
InitFiles ==
    /\ db = [InitDb EXCEPT
               !.Request = (2 :> [SeedRequest[1] EXCEPT !.request_status_id = ExpenseProof]) @@ @,
               !.Route = (2 :> SeedRoute[1]) @@ @,
               !.Route_Request = @ \cup {[request_id |-> 2, route_id |-> 2]}]
    /\ response = Response("none", 0, "none", 0, "none")
    /\ calls = [c \in Callers |-> Idle]
    /\ pool = NoneHeld

SpecFiles == InitFiles /\ [][NextFiles]_vars

\* The receipts of a request, their decisions, the reevaluation, and the
\* deletion of receipts (which have no files).
NextReceiptsDeleted ==
    \/ NextReceipts
    \/ \E i \in ReceiptIds : deleteReceipt(i, TRUE, TRUE, 0)

SpecReceiptsDeleted == InitReceipts /\ [][NextReceiptsDeleted]_vars

\* ---------------------------------------------- location lookups, in turn
LocationTable(kind) == IF kind = "getCountryId" THEN "Country" ELSE "City"

\* The names looked up: one that has a row, the same in lower case, new ones.
ResolvedNames(kind) ==
    IF kind = "getCountryId" THEN {"Mexico", "mexico", "Canada", "Peru"}
    ELSE {"CDMX", "cdmx", "Lima", "Cusco"}

\* A call of getCountryId / getCityId that runs to its end before the next.
resolveLocation(kind, name) ==
    /\ Cardinality(DOMAIN db[LocationTable(kind)]) <= MaxLocationRows
    /\ UNCHANGED <<calls, pool>>
    /\ \E r \in {IF kind = "getCountryId" THEN getCountryId(db, db, name)
                  ELSE getCityId(db, db, name)} :
         /\ db' = r.db
         /\ response' = Response(kind, r.id, name, 0, "none")

\* The schema of Country and City is not part of the sources: the name
\* columns have either collation.
InitResolve ==
    /\ \E collation \in {"bin", "ci"} : db = [InitDb EXCEPT !.Collation = collation]
    /\ response = Response("none", 0, "none", 0, "none")
    /\ calls = [c \in Callers |-> Idle]
    /\ pool = NoneHeld

NextResolve ==
    \E kind \in {"getCountryId", "getCityId"} :
       \E name \in ResolvedNames(kind) : resolveLocation(kind, name)

SpecResolve == InitResolve /\ [][NextResolve]_vars

\* ------------------------------------------- overlapping location lookups
\* getCountryId and getCityId of two callers whose statements interleave: each
\* call is a SELECT, an await, and then the INSERT or the return.
LocationNames(kind) == IF kind = "getCountryId" THEN {"Mexico", "Canada"} ELSE {"CDMX", "Lima"}

\* SELECT ..._id FROM table WHERE ..._name = ?
LocationRows(d, kind, name) ==
    {id \in DOMAIN d[LocationTable(kind)] : d[LocationTable(kind)][id] = name}

\* The outcomes of INSERT for a name the table already has: without a unique
\* index a second row, with one a duplicate-key error (the schema is not part
\* of the sources).
InsertOutcomes(d, kind, name) ==
    IF LocationRows(d, kind, name) = {} THEN {"inserted"} ELSE {"inserted", "ER_DUP_ENTRY"}

getLocationIdSelect(c, kind, name) ==
    /\ calls[c] = Idle
    /\ Cardinality(DOMAIN db[LocationTable(kind)]) < MaxLocationRows
    /\ calls' = [calls EXCEPT ![c] = [pc |-> kind, name |-> name,
                                      rows |-> LocationRows(db, kind, name)]]
    /\ UNCHANGED <<db, response, pool>>

getLocationIdInsert(c) ==
    /\ calls[c].pc \in {"getCountryId", "getCityId"}
    /\ UNCHANGED <<response, pool>>
    /\ \E call \in {calls[c]} :
         IF call.rows # {}
         THEN /\ db' = db
              /\ calls' = [calls EXCEPT ![c] =
                             [pc |-> "returned", kind |-> call.pc, name |-> call.name,
                              id |-> CHOOSE id \in call.rows : \A o \in call.rows : id <= o]]
         ELSE \E outcome \in InsertOutcomes(db, call.pc, call.name) :
              IF outcome = "ER_DUP_ENTRY"
              THEN /\ db' = db
                   /\ calls' = [calls EXCEPT ![c] =
                                  [pc |-> "threw", kind |-> call.pc, name |-> call.name]]
              ELSE \E insertId \in {NewId(DOMAIN db[LocationTable(call.pc)])} :
                   /\ db' = [db EXCEPT ![LocationTable(call.pc)] = (insertId :> call.name) @@ @]
                   /\ calls' = [calls EXCEPT ![c] =
                                  [pc |-> "returned", kind |-> call.pc, name |-> call.name,
                                   id |-> insertId]]

\* The caller goes on with the id, or with the error.
getLocationIdDone(c) ==
    /\ calls[c].pc \in {"returned", "threw"}
    /\ calls' = [calls EXCEPT ![c] = Idle]
    /\ UNCHANGED <<db, response, pool>>

NextResolveRace ==
    \/ \E c \in Callers, kind \in {"getCountryId", "getCityId"} :
         \E name \in LocationNames(kind) : getLocationIdSelect(c, kind, name)
    \/ \E c \in Callers : getLocationIdInsert(c)
    \/ \E c \in Callers : getLocationIdDone(c)

SpecResolveRace == Init /\ [][NextResolveRace]_vars

\* ------------------------------------------------------------ properties
\* Helpers of the properties below.
StatusOf(d, requestId) == d.Request[requestId].request_status_id
LinksOf(d, requestId) == {l \in d.Route_Request : l.request_id = requestId}
LegsOf(d, requestId) == {i \in DOMAIN d.Route : [request_id |-> requestId, route_id |-> i] \in d.Route_Request}
OrphanRoutes(d) == {i \in DOMAIN d.Route : \A l \in d.Route_Request : l.route_id # i}
ReceiptsOf(d, requestId, validation) ==
    {i \in DOMAIN d.Receipt : d.Receipt[i].request_id = requestId
                              /\ d.Receipt[i].validation = validation}
OnlyStatusChanged(requestId, statusId) ==
    /\ requestId \in DOMAIN db.Request
    /\ db' = [db EXCEPT !.Request[requestId].request_status_id = statusId]
RouteFailureLogged(r) == r.log # <<>> /\ Head(r.log) = "Error processing route:"

\* C1: in every reachable state, whatever handlers have run (create,
\* create-draft, confirm-draft, edit, authorize, decline, accounts-payable
\* attend, travel-agent attend, cancel, send-for-validation, reevaluate, and
\* the receipt handlers), the status id of every request row is one of 1..10.
C1_StatusInWorkflow ==
    \A r \in DOMAIN db.Request : db.Request[r].request_status_id \in 1..10

\* A reevaluation has just moved request 2 back to the expense proof.
C1_Witness ==
    /\ response.op = "validateReceiptsHandler"
    /\ response.request_id = 2
    /\ response.result = "6"
    /\ 2 \in DOMAIN db.Request
    /\ StatusOf(db, 2) = 6

\* C2: a createTravelRequest call whose route loop throws (a location
\* lookup, the leg insert or the link insert of some leg) leaves every table
\* as it was (no request, leg or link row of the call) and throws the generic
\* persistence error.
C2_CreateAllOrNothing ==
    [][(response'.op = "createTravelRequest" /\ RouteFailureLogged(response'))
         => /\ db' = db
            /\ response'.result = "Database Error: Unable to fill Request table"
            /\ response'.http = 500]_vars

\* A create has failed inside the route loop and only the seeded rows exist.
C2_Witness ==
    /\ response.op = "createTravelRequest"
    /\ RouteFailureLogged(response)
    /\ DOMAIN db.Request = {1}
    /\ DOMAIN db.Route = {1}
    /\ db.Route_Request = {[request_id |-> 1, route_id |-> 1]}

\* C3: after a successful editTravelRequest with M legs on a request that had
\* N legs (N is at least 1 whenever an edit succeeds), the request has
\* exactly M link rows and M leg rows, none of the N old leg rows is in the
\* Route table, and no leg row is without a link.
C3_EditReplacesLegs ==
    [][(response'.op = "editTravelRequest" /\ response'.result = "ok")
         => \A t \in TravelDetails :
              editTravelRequest(response'.request_id, t, 0)
                => LET r == response'.request_id
                       M == 1 + Len(t.additionalRoutes)
                   IN /\ Cardinality(LegsOf(db, r)) >= 1
                      /\ Cardinality(LinksOf(db', r)) = M
                      /\ Cardinality(LegsOf(db', r)) = M
                      /\ LegsOf(db, r) \cap DOMAIN db'.Route = {}
                      /\ OrphanRoutes(db') = {}]_vars

\* An edit has replaced the legs of request 2 by a main leg and every
\* additional leg a payload can carry.
C3_Witness ==
    /\ response.op = "editTravelRequest"
    /\ response.result = "ok"
    /\ Cardinality(LegsOf(db, 2)) = MaxAdditionalRoutes + 1
    /\ Cardinality(DOMAIN db.Route) = MaxAdditionalRoutes + 2

\* C4: an editTravelRequest call that throws, at whatever statement, leaves
\* every table as it was: the request's notes, fees and day count, its legs
\* and its links.
C4_EditRollsBack ==
    [][(response'.op = "editTravelRequest" /\ response'.result # "ok")
         => /\ db' = db
            /\ response'.result = "Database Error: Unable to edit travel request"]_vars

\* An edit of request 2 has failed inside the route loop, after the update
\* and the deletes, and the request's row and leg are still there.
C4_Witness ==
    /\ response.op = "editTravelRequest"
    /\ response.request_id = 2
    /\ RouteFailureLogged(response)
    /\ 2 \in DOMAIN db.Request
    /\ db.Request[2].notes = "first"
    /\ LegsOf(db, 2) # {}

\* C5: a reevaluation of an existing request sets status 6 when a receipt of
\* the request is rejected, even if others are approved or pending; else
\* status 8 when every receipt is approved; else changes nothing and reports
\* that receipts are still pending.
C5_ReevaluationPolicy ==
    [][(response'.op = "validateReceiptsHandler"
        /\ response'.request_id \in DOMAIN db.Request)
         => LET r == response'.request_id
                rejected == ReceiptsOf(db, r, "Rechazado")
                pending == ReceiptsOf(db, r, "Pendiente")
            IN IF rejected # {}
               THEN OnlyStatusChanged(r, 6) /\ response'.result = "6"
               ELSE IF pending = {}
               THEN OnlyStatusChanged(r, 8) /\ response'.result = "8"
               ELSE db' = db /\ response'.result = "pending"]_vars

\* A reevaluation has sent request 2 back with one receipt approved and one
\* rejected.
C5_Witness ==
    /\ response.op = "validateReceiptsHandler"
    /\ response.request_id = 2
    /\ response.result = "6"
    /\ ReceiptsOf(db, 2, "Aprobado") # {}
    /\ ReceiptsOf(db, 2, "Rechazado") # {}
    /\ StatusOf(db, 2) = 6

\* C6: cancel sets status 9 and succeeds exactly from status 1..5; from 9 it
\* fails as already cancelled, from 6, 7, 8 and 10 it fails as not
\* cancellable, for a request without a row it fails with 404; the failing
\* calls change nothing.
C6_CancelGuard ==
    [][response'.op = "cancelTravelRequest"
         => LET r == response'.request_id
                st == IF r \in DOMAIN db.Request THEN StatusOf(db, r) ELSE 0
            IN /\ st \in 1..5
                    => OnlyStatusChanged(r, 9) /\ response'.result = "ok"
               /\ st = 9
                    => /\ db' = db
                       /\ response'.result = "Request has already been cancelled."
                       /\ response'.http = 400
               /\ st \in {6, 7, 8, 10}
                    => /\ db' = db
                       /\ response'.result = "Request cannot be cancelled"
                       /\ response'.http = 400
               /\ st = 0
                    => /\ db' = db
                       /\ response'.http = 404
               /\ response'.result = "ok" => st \in 1..5]_vars

\* Request 2 has just been cancelled.
C6_Witness ==
    /\ response.op = "cancelTravelRequest"
    /\ response.request_id = 2
    /\ response.result = "ok"
    /\ StatusOf(db, 2) = 9

\* C7: a successful createTravelRequest gives the new request status 2 when
\* the creator's stored role is 1, 3 when it is 4 and 4 when it is 5; for a
\* creator with another role, or without a row, the call fails and changes
\* no table.
C7_InitialStatusByRole ==
    [][response'.op = "createTravelRequest"
         => \A u \in UserIds, t \in LeanDetails :
              createTravelRequest(u, t, 0, TRUE)
                => LET role == IF u \in DOMAIN User THEN User[u] ELSE 0
                       id == response'.request_id
                   IN IF role \in {1, 4, 5}
                      THEN /\ response'.result = "ok"
                           /\ id \in DOMAIN db'.Request \ DOMAIN db.Request
                           /\ db'.Request[id].user_id = u
                           /\ role = 1 => StatusOf(db', id) = 2
                           /\ role = 4 => StatusOf(db', id) = 3
                           /\ role = 5 => StatusOf(db', id) = 4
                      ELSE /\ response'.result # "ok"
                           /\ db' = db]_vars

\* A user with role 5 has created request 2, which awaits its trip quote.
C7_Witness ==
    /\ response.op = "createTravelRequest"
    /\ response.result = "ok"
    /\ 2 \in DOMAIN db.Request
    /\ User[db.Request[2].user_id] = 5
    /\ StatusOf(db, 2) = 4

\* C8: authorize on an existing request sets status 3 when the caller's
\* stored role is 4 and status 4 when it is 5; for another role it fails with
\* 400, for a user without a row with 404, and then changes nothing.
C8_AuthorizeByRole ==
    [][(response'.op = "authorizeTravelRequest"
        /\ response'.request_id \in DOMAIN db.Request)
         => \A u \in UserIds :
              authorizeTravelRequest(response'.request_id, u, TRUE)
                => LET r == response'.request_id
                       role == IF u \in DOMAIN User THEN User[u] ELSE 0
                   IN /\ role = 4 => OnlyStatusChanged(r, 3) /\ response'.result = "ok"
                      /\ role = 5 => OnlyStatusChanged(r, 4) /\ response'.result = "ok"
                      /\ role \in {1, 2, 3} => db' = db /\ response'.http = 400
                      /\ role = 0 => db' = db /\ response'.http = 404]_vars

\* A user with role 4 has authorized request 2.
C8_Witness ==
    /\ response.op = "authorizeTravelRequest"
    /\ response.request_id = 2
    /\ response.result = "ok"
    /\ StatusOf(db, 2) = 3

\* C9: accounts-payable attend succeeds only on a request in status 4; it
\* then writes the imposed fee and the new status, 5 when a leg of the
\* request needs a plane or a hotel and 6 otherwise, and nothing else; on a
\* request without a row or in another status it is rejected and changes
\* nothing.
C9_AccountsPayableAttend ==
    [][response'.op = "attendTravelRequest"
         => \A f \in FeeInputs :
              attendTravelRequest(response'.request_id, f, TRUE)
                => LET r == response'.request_id
                       needs == \E i \in LegsOf(db, r) :
                                   db.Route[i].plane_needed \/ db.Route[i].hotel_needed
                   IN IF r \in DOMAIN db.Request /\ StatusOf(db, r) = 4
                      THEN /\ response'.result = "ok"
                           /\ db' = [db EXCEPT
                                       !.Request[r].request_status_id =
                                           IF needs THEN 5 ELSE 6,
                                       !.Request[r].imposed_fee = f]
                      ELSE /\ response'.result # "ok"
                           /\ response'.http = 404
                           /\ db' = db]_vars

\* Accounts payable has attended request 2, whose only need is the hotel of
\* a leg, and sent it to the travel agency with the fee.
C9_Witness ==
    /\ response.op = "attendTravelRequest"
    /\ response.request_id = 2
    /\ response.result = "ok"
    /\ StatusOf(db, 2) = 5
    /\ db.Request[2].imposed_fee \in FeeInputs
    /\ \A i \in LegsOf(db, 2) : ~db.Route[i].plane_needed
    /\ \E i \in LegsOf(db, 2) : db.Route[i].hotel_needed

\* C10: send-for-validation sets status 7 exactly when the request is in
\* status 6; in any other status it fails with 400, for a request without a
\* row with 404, and then changes nothing.
C10_SendForValidation ==
    [][response'.op = "sendExpenseValidation"
         => LET r == response'.request_id
                st == IF r \in DOMAIN db.Request THEN StatusOf(db, r) ELSE 0
            IN /\ st = 6 => OnlyStatusChanged(r, 7) /\ response'.result = "ok"
               /\ st \in (1..10) \ {6} => db' = db /\ response'.http = 400
               /\ st = 0 => db' = db /\ response'.http = 404]_vars

\* Request 2 has just been sent for the validation of its receipts.
C10_Witness ==
    /\ response.op = "sendExpenseValidation"
    /\ response.request_id = 2
    /\ response.result = "ok"
    /\ StatusOf(db, 2) = 7

\* C11: in a sequential execution the validation of a receipt changes only
\* from pending, to approved or rejected; validateReceipt on a pending
\* receipt sets approved for approval 1 and rejected for approval 0, and on a
\* decided receipt it is refused as already approved or rejected and changes
\* nothing.
C11_ReceiptDecidedOnce ==
    [][/\ \A i \in DOMAIN db.Receipt \cap DOMAIN db'.Receipt :
            db'.Receipt[i].validation # db.Receipt[i].validation
              => /\ db.Receipt[i].validation = "Pendiente"
                 /\ db'.Receipt[i].validation \in {"Aprobado", "Rechazado"}
       /\ (response'.op = "validateReceipt" /\ response'.request_id \in DOMAIN db.Receipt)
            => \A approval \in {0, 1} :
                 validateReceipt(response'.request_id, approval)
                   => LET i == response'.request_id IN
                      IF db.Receipt[i].validation = "Pendiente"
                      THEN /\ response'.result = "ok"
                           /\ db' = [db EXCEPT !.Receipt[i].validation =
                                        IF approval = 1 THEN "Aprobado" ELSE "Rechazado"]
                      ELSE /\ response'.result = "Receipt already approved or rejected"
                           /\ db' = db]_vars

\* A pending receipt of request 2 has just been rejected.
C11_Witness ==
    /\ response.op = "validateReceipt"
    /\ response.result = "ok"
    /\ response.request_id \in DOMAIN db.Receipt
    /\ db.Receipt[response.request_id].request_id = 2
    /\ db.Receipt[response.request_id].validation = "Rechazado"

\* C12: whatever the interleaving of overlapping validateReceipt calls, a
\* receipt that has been decided keeps its validation: it never goes from
\* approved to rejected or from rejected to approved.
C12_DecisionIsFinal ==
    [][\A i \in DOMAIN db.Receipt \cap DOMAIN db'.Receipt :
          db.Receipt[i].validation # "Pendiente"
            => db'.Receipt[i].validation = db.Receipt[i].validation]_vars

\* The reply of a reevaluation.
Reported(result) ==
    IF result.updatedStatus = 6 THEN "6"
    ELSE IF result.updatedStatus = 8 THEN "8" ELSE "pending"

\* The tables after receipt a got approval x and then receipt b approval y.
Decided(d, a, x, b, y) ==
    AccountsPayableValidateReceipt(
        AccountsPayableValidateReceipt(d, a, 3 - x).db, b, 3 - y).db

\* C13: a reevaluation run again right after a reevaluation, the receipts
\* being the same, leaves the tables and reports the outcome of the first;
\* and for two pending receipts of a request and a decision for each, the
\* reevaluation after both decisions gives the same tables and outcome
\* whichever receipt was decided first.
C13_ReevaluationIdempotent ==
    /\ [][(response'.op = "validateReceiptsHandler"
           /\ response'.request_id \in DOMAIN db.Request)
            => \E again \in {validateReceiptsAndUpdateStatus(db', response'.request_id)} :
                 /\ again.db = db'
                 /\ Reported(again) = response'.result]_vars
    /\ [](\A r \in DOMAIN db.Request :
            \A a, b \in ReceiptsOf(db, r, "Pendiente") : \A x, y \in {0, 1} :
               a # b => validateReceiptsAndUpdateStatus(Decided(db, a, x, b, y), r)
                          = validateReceiptsAndUpdateStatus(Decided(db, b, y, a, x), r))

\* A reevaluation has sent request 2, which was finalized or under
\* validation, back to the expense proof because of a rejected receipt.
C13_Witness ==
    /\ response.op = "validateReceiptsHandler"
    /\ response.request_id = 2
    /\ response.result = "6"
    /\ ReceiptsOf(db, 2, "Rechazado") # {}
    /\ ReceiptsOf(db, 2, "Pendiente") # {}

\* An item of a receipts array with its three numeric fields.
WellFormedItem(item) ==
    {"receipt_type_id", "request_id", "amount"} \subseteq DOMAIN item

\* C14: a batch whose receipts field is not a non-empty array, or has an item
\* without a numeric receipt_type_id, request_id or amount, is refused with
\* BAD_REQUEST and inserts no row; a batch with a store error while inserting
\* leaves no row behind; any other batch inserts one pending row per item,
\* changes no other row and reports the number of items.
C14_BatchAllOrNothing ==
    [][response'.op = "createExpenseValidationHandler"
         => \A body \in ReceiptBodies : \A fail \in 0..BatchLen(body) :
              createExpenseValidationHandler(body, fail)
                => IF ~IsArray(body) \/ BatchLen(body) = 0
                      \/ \E i \in 1..BatchLen(body) : ~WellFormedItem(body.receipts[i])
                   THEN /\ db' = db
                        /\ response'.result = "BAD_REQUEST"
                        /\ response'.http = 400
                   ELSE IF fail # 0 \/ \E i \in 1..BatchLen(body) :
                                          body.receipts[i].request_id \notin DOMAIN db.Request
                   THEN /\ db' = db
                        /\ response'.http = 500
                   ELSE /\ Cardinality(DOMAIN db'.Receipt \ DOMAIN db.Receipt) = BatchLen(body)
                        /\ \A i \in DOMAIN db.Receipt :
                              i \in DOMAIN db'.Receipt /\ db'.Receipt[i] = db.Receipt[i]
                        /\ \A i \in DOMAIN db'.Receipt \ DOMAIN db.Receipt :
                              db'.Receipt[i].validation = "Pendiente"
                        /\ [db' EXCEPT !.Receipt = db.Receipt] = db
                        /\ response'.request_id = BatchLen(body)
                        /\ response'.http = 201]_vars

\* A batch of two receipts was inserted whole for request 2.
C14_Witness ==
    /\ response.op = "createExpenseValidationHandler"
    /\ response.result = "ok"
    /\ response.request_id = 2
    /\ Cardinality(ReceiptsOf(db, 2, "Pendiente")) >= 2

\* C15: decline on an existing request, whatever its status, sets status 10
\* and nothing else when the caller's stored role is 4 or 5; for a caller
\* with another role it is refused with 400, for a caller without a row with
\* 404, and then no table changes.
C15_DeclineByRole ==
    [][(response'.op = "declineTravelRequest"
        /\ response'.request_id \in DOMAIN db.Request)
         => \A u \in UserIds :
              declineTravelRequest(response'.request_id, u, TRUE)
                => LET role == IF u \in DOMAIN User THEN User[u] ELSE 0 IN
                   /\ role \in {4, 5}
                        => /\ OnlyStatusChanged(response'.request_id, 10)
                           /\ response'.result = "ok"
                   /\ role \in {1, 2, 3} => db' = db /\ response'.http = 400
                   /\ role = 0 => db' = db /\ response'.http = 404]_vars

\* Request 2 was declined after accounts payable had attended it: it was
\* past the reviews when the decline came.
C15_Witness ==
    /\ response.op = "declineTravelRequest"
    /\ response.request_id = 2
    /\ response.result = "ok"
    /\ 2 \in DOMAIN db.Request
    /\ StatusOf(db, 2) = 10
    /\ db.Request[2].imposed_fee \in FeeInputs

C17_ConfirmDraftByRole ==
    [][(response'.op = "confirmDraftTravelRequest"
        /\ response'.request_id \in DOMAIN db.Request)
         => \A u \in UserIds :
              (StatusOf(db, response'.request_id) = Draft
               /\ confirmDraftTravelRequest(u, response'.request_id, TRUE))
                => LET role == IF u \in DOMAIN User THEN User[u] ELSE 0
                       r == response'.request_id
                   IN /\ role = 1 => StatusOf(db', r) = 2 /\ response'.result = "ok"
                      /\ role = 4 => StatusOf(db', r) = 3 /\ response'.result = "ok"
                      /\ role = 5 => StatusOf(db', r) = 4 /\ response'.result = "ok"
                      /\ role \notin {1, 4, 5}
                           => /\ db' = db
                              /\ StatusOf(db', r) = Draft
                              /\ response'.result # "ok"
                              /\ response'.http = 500]_vars

\* A user with role 4 has confirmed request 2, which went to the second
\* review.
C17_Witness ==
    /\ response.op = "confirmDraftTravelRequest"
    /\ response.request_id = 2
    /\ response.result = "ok"
    /\ 2 \in DOMAIN db.Request
    /\ StatusOf(db, 2) = 3
    /\ db.Request[2].last_mod_date = 1

\* The operations that move a request along the workflow.
StatusOps ==
    {"confirmDraftTravelRequest", "authorizeTravelRequest", "declineTravelRequest",
     "attendTravelRequest", "travelAgentAttendTravelRequest", "cancelTravelRequest",
     "sendExpenseValidation", "validateReceiptsHandler"}

\* Every table but Request is as it was and Request has the same rows.
OnlyRequestRowsWritten ==
    /\ [db' EXCEPT !.Request = db.Request] = db
    /\ DOMAIN db'.Request = DOMAIN db.Request

\* C18 as stated: a status-transition operation changes no leg, link or
\* receipt row, and of the request rows it changes at most the status of the
\* request it was called for, and the imposed fee when it is accounts-payable
\* attend.
C18_StatusOnly ==
    [][response'.op \in StatusOps
         => /\ OnlyRequestRowsWritten
            /\ \A i \in DOMAIN db.Request :
                 IF i = response'.request_id
                 THEN [db'.Request[i] EXCEPT
                         !.request_status_id = db.Request[i].request_status_id,
                         !.imposed_fee = IF response'.op = "attendTravelRequest"
                                         THEN db.Request[i].imposed_fee ELSE @]
                        = db.Request[i]
                 ELSE db'.Request[i] = db.Request[i]]_vars

\* C18: a status-transition operation changes no leg, link or receipt row,
\* and of the request rows it changes at most, on the request it was called
\* for, the status, the imposed fee when it is accounts-payable attend, and
\* the last modification date when it is confirm-draft.
C18_StatusAndStamp ==
    [][response'.op \in StatusOps
         => /\ OnlyRequestRowsWritten
            /\ \A i \in DOMAIN db.Request :
                 IF i = response'.request_id
                 THEN [db'.Request[i] EXCEPT
                         !.request_status_id = db.Request[i].request_status_id,
                         !.imposed_fee = IF response'.op = "attendTravelRequest"
                                         THEN db.Request[i].imposed_fee ELSE @,
                         !.last_mod_date = IF response'.op = "confirmDraftTravelRequest"
                                           THEN db.Request[i].last_mod_date ELSE @]
                        = db.Request[i]
                 ELSE db'.Request[i] = db.Request[i]]_vars

\* Request 2, with its leg, its link and a pending receipt, was sent for
\* validation.
C18_Witness ==
    /\ response.op = "sendExpenseValidation"
    /\ response.request_id = 2
    /\ response.result = "ok"
    /\ LegsOf(db, 2) # {}
    /\ LinksOf(db, 2) # {}
    /\ ReceiptsOf(db, 2, "Pendiente") # {}

\* C19: a handler attempts the notification only when its write went
\* through (a refused or failed call sends nothing), and when the
\* notification fails the reply is an error but the transition stays: the
\* request has the status the operation gives it (the new request exists,
\* for create).
C19_MailAfterCommit ==
    [][response'.op \in StatusOps \cup {"createTravelRequest"}
         => LET op == response'.op
                r == response'.request_id
            IN /\ response'.mail # "none" => response'.result \in {"ok", "6", "8", "pending"}
               /\ response'.mail = "failed"
                    => /\ response'.http = 500
                       /\ r \in DOMAIN db'.Request
                       /\ op = "createTravelRequest"
                            => r \notin DOMAIN db.Request /\ StatusOf(db', r) \in {2, 3, 4}
                       /\ op = "confirmDraftTravelRequest"
                            => /\ StatusOf(db', r) \in {2, 3, 4}
                               /\ db'.Request[r].last_mod_date
                                    = CurrentTimestamp(db.Request[r].last_mod_date)
                       /\ op = "authorizeTravelRequest" => StatusOf(db', r) \in {3, 4}
                       /\ op = "declineTravelRequest" => StatusOf(db', r) = 10
                       /\ op = "cancelTravelRequest"
                            => StatusOf(db, r) \in 1..5 /\ StatusOf(db', r) = 9
                       /\ op = "attendTravelRequest"
                            => /\ StatusOf(db, r) = 4 /\ StatusOf(db', r) \in {5, 6}
                               /\ db'.Request[r].imposed_fee \in FeeInputs
                       /\ op = "travelAgentAttendTravelRequest" => StatusOf(db', r) = 6
                       /\ op = "sendExpenseValidation"
                            => StatusOf(db, r) = 6 /\ StatusOf(db', r) = 7
                       /\ op = "validateReceiptsHandler"
                            => db' = validateReceiptsAndUpdateStatus(db, r).db]_vars

\* The notification of a cancellation failed: the reply is 500 and request 2
\* is cancelled.
C19_Witness ==
    /\ response.op = "cancelTravelRequest"
    /\ response.request_id = 2
    /\ response.mail = "failed"
    /\ response.http = 500
    /\ 2 \in DOMAIN db.Request
    /\ StatusOf(db, 2) = 9

\* C20: whatever the interleaving of the lookups, no country or city name
\* has two rows, and a finished lookup of a name has returned the id of the
\* one row of that name (it has not thrown).
C20_NamesStayUnique ==
    /\ \A kind \in {"getCountryId", "getCityId"} : \A name \in LocationNames(kind) :
          Cardinality(LocationRows(db, kind, name)) <= 1
    /\ \A c \in Callers :
          calls[c].pc \in {"returned", "threw"}
            => /\ calls[c].pc = "returned"
               /\ LocationRows(db, calls[c].kind, calls[c].name) = {calls[c].id}

\* The rows of a table whose name is, character by character, the given one.
ExactRows(d, kind, name) ==
    {id \in DOMAIN d[LocationTable(kind)] : d[LocationTable(kind)][id] = name}

C22_DeleteDespiteBlobFailures ==
    [][response'.op = "deleteReceipt"
         => \A pdfOk \in BOOLEAN, xmlOk \in BOOLEAN :
              deleteReceipt(response'.request_id, pdfOk, xmlOk, 0)
                => LET id == response'.request_id IN
                   IF id \in DOMAIN db.Receipt
                   THEN /\ DOMAIN db'.Receipt = DOMAIN db.Receipt \ {id}
                        /\ \A i \in DOMAIN db'.Receipt : db'.Receipt[i] = db.Receipt[i]
                        /\ [db' EXCEPT !.Receipt = db.Receipt, !.Files = db.Files] = db
                        /\ response'.http = 200
                        /\ (~pdfOk /\ db.Receipt[id].pdf_file_id \in db.Files)
                             => db.Receipt[id].pdf_file_id \in db'.Files
                        /\ (~xmlOk /\ db.Receipt[id].xml_file_id \in db.Files)
                             => db.Receipt[id].xml_file_id \in db'.Files
                   ELSE /\ db' = db
                        /\ response'.result = "Receipt not found"
                        /\ response'.http = 404]_vars

\* Receipt 2 was deleted while both of its files stayed in the bucket: the
\* two failures were logged and the reply was 200.
C22_Witness ==
    /\ response.op = "deleteReceipt"
    /\ response.request_id = 2
    /\ response.http = 200
    /\ response.log = <<"Error deleting PDF file", "Error deleting XML file">>
    /\ 2 \notin DOMAIN db.Receipt
    /\ Cardinality(db.Files) >= 2

\* C23: in every state reached by create, create-draft and edit calls,
\* failed at any statement or not, every request row has at least one leg
\* linked to it.
C23_RequestHasLeg ==
    \A r \in DOMAIN db.Request : LegsOf(db, r) # {}

\* A draft saved with nothing filled in is request 2, with the one leg made
\* of the defaults.
C23_Witness ==
    /\ response.op = "createDraftTravelRequest"
    /\ response.result = "ok"
    /\ 2 \in DOMAIN db.Request
    /\ Cardinality(LegsOf(db, 2)) = 1
    /\ \A i \in LegsOf(db, 2) : db.Route[i].router_index = 0

\* The least number of whole days that cover a number of minutes.
DaysCovering(minutes) ==
    CHOOSE n \in -400..400 : n * MinutesPerDay >= minutes /\ (n - 1) * MinutesPerDay < minutes

\* The day counts the rule allows for a leg list: from the start of a leg
\* with the lowest sequence index to the end of a leg with the highest.
DaysByIndex(legs) ==
    IF Len(legs) = 0 THEN {0}
    ELSE LET idx == {legs[i].router_index : i \in DOMAIN legs}
             lowest == {i \in DOMAIN legs : \A x \in idx : legs[i].router_index <= x}
             highest == {i \in DOMAIN legs : \A x \in idx : legs[i].router_index >= x}
         IN {DaysCovering((legs[h].ending_date * MinutesPerDay + legs[h].ending_time)
                          - (legs[l].beginning_date * MinutesPerDay + legs[l].beginning_time)) :
               l \in lowest, h \in highest}

\* A leg from 09:00 on day 100 to a minute of day 101.
NineToNextDay(ending_time) ==
    [router_index |-> 1, beginning_date |-> 100, beginning_time |-> 540,
     ending_date |-> 101, ending_time |-> ending_time]

\* C24: getRequestDays gives 0 for no leg, 1 for a leg from 09:00 to 09:00
\* of the next day and 2 for one minute more; and the day count a successful
\* create, create-draft or edit stores is the number of whole days covering
\* the time from the start of the leg with the lowest sequence index to the
\* end of the leg with the highest.
C24_RequestDays ==
    /\ [](/\ getRequestDays(<<>>) = 0
          /\ getRequestDays(<<NineToNextDay(540)>>) = 1
          /\ getRequestDays(<<NineToNextDay(541)>>) = 2)
    /\ [][(response'.op \in {"createTravelRequest", "createDraftTravelRequest",
                              "editTravelRequest"}
           /\ response'.result = "ok")
            => LET id == response'.request_id IN
               /\ \A u \in Creators, t \in TravelDetails :
                    createTravelRequest(u, t, 0, TRUE)
                      => db'.Request[id].request_days
                           \in DaysByIndex(formatRoutes(t.mainRoute, t.additionalRoutes))
               /\ \A t \in DraftDetails :
                    createDraftTravelRequest(1, t, 0)
                      => db'.Request[id].request_days
                           \in DaysByIndex(formatRoutes(DraftMainRoute(t.mainRoute),
                                                        t.additionalRoutes))
               /\ \A t \in TravelDetails :
                    editTravelRequest(id, t, 0)
                      => db'.Request[id].request_days
                           \in DaysByIndex(formatRoutes(t.mainRoute, t.additionalRoutes))]_vars

\* Request 2 was edited to one leg from 09:00 of day 100 to 09:01 of day
\* 101 and has a day count of 2.
C24_Witness ==
    /\ response.op = "editTravelRequest"
    /\ response.result = "ok"
    /\ 2 \in DOMAIN db.Request
    /\ db.Request[2].request_days = 2
    /\ \A i \in LegsOf(db, 2) :
          /\ db.Route[i].beginning_date = 100 /\ db.Route[i].beginning_time = 540
          /\ db.Route[i].ending_date = 101 /\ db.Route[i].ending_time = 541

\* The day count between the earliest start and the latest end of the legs
\* of a request.
DaysByExtremes(d, requestId) ==
    LET legs == LegsOf(d, requestId)
        starts == {d.Route[i].beginning_date * MinutesPerDay + d.Route[i].beginning_time :
                     i \in legs}
        ends == {d.Route[i].ending_date * MinutesPerDay + d.Route[i].ending_time : i \in legs}
    IN DaysCovering((CHOOSE e \in ends : \A x \in ends : e >= x)
                    - (CHOOSE b \in starts : \A x \in starts : b <= x))

\* C25: the day count a successful create, create-draft or edit stores is
\* the number of whole days covering the time from the earliest start to the
\* latest end over the legs it stored, in whatever order their indices are.
C25_DaysByExtremes ==
    [][(response'.op \in {"createTravelRequest", "createDraftTravelRequest",
                           "editTravelRequest"}
        /\ response'.result = "ok")
         => db'.Request[response'.request_id].request_days
              = DaysByExtremes(db', response'.request_id)]_vars

\* C26: a call of validateReceipt writes at most the validation of the
\* receipt it was called with: the Request table (the status of the parent
\* request with it), every other receipt, the other columns of that receipt
\* and every other table stay as they were.
C26_ValidateWritesOneReceipt ==
    [][response'.op = "validateReceipt"
         => \E validation \in {"Pendiente", "Aprobado", "Rechazado"} :
              \/ db' = db
              \/ /\ response'.request_id \in DOMAIN db.Receipt
                 /\ db' = [db EXCEPT !.Receipt[response'.request_id].validation = validation]]_vars

\* The last receipt of request 2 in ReceiptValidation has been decided, a
\* receipt or none left rejected: a reevaluation would move the request, and
\* it still waits in status 7.
C26_Witness ==
    /\ response.op = "validateReceipt"
    /\ response.result = "ok"
    /\ 2 \in DOMAIN db.Request
    /\ StatusOf(db, 2) = ReceiptValidation
    /\ ReceiptsOf(db, 2, "Pendiente") = {}
    /\ response.request_id \in ReceiptsOf(db, 2, "Aprobado") \cup ReceiptsOf(db, 2, "Rechazado")
    /\ validateReceiptsAndUpdateStatus(db, 2).updatedStatus # 0

\* The edges of the workflow graph, each with the operation that follows it.
WorkflowEdges ==
    ({"confirmDraftTravelRequest"} \X {Draft} \X {FirstReview, SecondReview, TripQuote})
    \cup {<<"authorizeTravelRequest", FirstReview, SecondReview>>,
          <<"authorizeTravelRequest", SecondReview, TripQuote>>}
    \cup ({"attendTravelRequest"} \X {TripQuote} \X {TravelAgency, ExpenseProof})
    \cup {<<"travelAgentAttendTravelRequest", TravelAgency, ExpenseProof>>,
          <<"sendExpenseValidation", ExpenseProof, ReceiptValidation>>}
    \cup ({"validateReceiptsHandler"} \X {ReceiptValidation} \X {ExpenseProof, Finalized})
    \cup ({"cancelTravelRequest"} \X (Draft..TravelAgency) \X {Cancelled})
    \cup ({"declineTravelRequest"} \X (Draft..Declined) \X {Declined})

\* C27: every step that changes the status of a request from one of the
\* statuses 1..7 is the step of an operation along an edge of the workflow
\* graph.
C27_WorkflowEdgesOnly ==
    [][\A r \in DOMAIN db.Request \cap DOMAIN db'.Request :
         (StatusOf(db, r) \in Draft..ReceiptValidation /\ StatusOf(db', r) # StatusOf(db, r))
           => <<response'.op, StatusOf(db, r), StatusOf(db', r)>> \in WorkflowEdges]_vars

\* C28: a request in status 8, 9 or 10 keeps its status in every step of
\* authorize, decline, confirm-draft, accounts-payable attend, travel-agency
\* attend, cancel, send-for-validation and reevaluate.
C28_TerminalAbsorbing ==
    [][response'.op \in StatusOps
         => \A r \in DOMAIN db.Request \cap DOMAIN db'.Request :
              StatusOf(db, r) \in {Finalized, Cancelled, Declined}
                => StatusOf(db', r) = StatusOf(db, r)]_vars

\* C29: as long as no level-1 authorizer has authorized it, a request that a
\* requester submitted is not in TripQuote or a later status of the
\* workflow (4..8).
C29_NoBypass ==
    \A r \in RequestIds \cap DOMAIN db.Request :
        getUserRole(db.Request[r].user_id) = 1
          => StatusOf(db, r) \notin TripQuote..Finalized

\* The statuses the guard of a guarded operation lets through.
GuardOf(op) ==
    CASE op = "cancelTravelRequest" -> Draft..TravelAgency
      [] op = "attendTravelRequest" -> {TripQuote}
      [] op = "sendExpenseValidation" -> {ExpenseProof}

\* C30: whenever a cancel, an accounts-payable attend or a send-for-validation
\* whose call overlaps other calls writes the status and reports success, the
\* status it overwrites satisfies its guard; so the later of two overlapping
\* cancels, which would overwrite Cancelled, does not report success.
C30_GuardHoldsAtWrite ==
    [][\A c \in Callers :
         (calls[c] # Idle /\ calls'[c] = Idle /\ response'.result = "ok")
           => StatusOf(db, calls[c].requestId) \in GuardOf(calls[c].pc)]_vars

\* The receipts of a request, whatever their validation.
AllReceiptsOf(d, requestId) ==
    {i \in DOMAIN d.Receipt : d.Receipt[i].request_id = requestId}

\* C31: a reevaluation leaves the status of a request without receipts as it
\* was, and moves a request to Finalized only when the request has a receipt
\* and every receipt of it is approved.
C31_FinalizedNeedsReceipt ==
    [][(response'.op = "validateReceiptsHandler"
        /\ response'.request_id \in DOMAIN db.Request)
         => LET r == response'.request_id IN
            /\ AllReceiptsOf(db, r) = {} => StatusOf(db', r) = StatusOf(db, r)
            /\ (StatusOf(db', r) = Finalized /\ StatusOf(db, r) # Finalized)
                 => /\ AllReceiptsOf(db, r) # {}
                    /\ AllReceiptsOf(db, r) = ReceiptsOf(db, r, "Aprobado")]_vars

LegKey(route) ==
    <<route.router_index, route.beginning_date, route.beginning_time,
      route.ending_date, route.ending_time>>

C34_DraftAllOrNothing ==
    [][response'.op = "createDraftTravelRequest"
         => IF response'.result = "ok"
            THEN LET id == response'.request_id IN
                 /\ DOMAIN db'.Request = DOMAIN db.Request \cup {id}
                 /\ id \notin DOMAIN db.Request
                 /\ StatusOf(db', id) = Draft
                 /\ \A t \in DraftDetails :
                      createDraftTravelRequest(1, t, 0)
                        => /\ Cardinality(LegsOf(db', id)) = 1 + Len(t.additionalRoutes)
                           /\ Cardinality(LinksOf(db', id)) = 1 + Len(t.additionalRoutes)
                 /\ OrphanRoutes(db') = {}
            ELSE /\ db' = db
                 /\ pool'.open = pool.open]_vars

\* C35: every lifecycle operation leaves as many connections checked out as
\* it found, and in every reachable state a connection of the pool is free
\* for the next operation.
C35_ConnectionsComeBack ==
    /\ [][pool' = pool]_vars
    /\ [](pool.open + pool.done < PoolSize)

\* C36: a status-changing operation called for a request that has no row
\* replies not found (404), which reports no status as applied, and leaves
\* every table as it was.
C36_MissingRequestNotFound ==
    [][(response'.op \in StatusOps /\ response'.request_id \notin DOMAIN db.Request)
         => /\ response'.http = 404
            /\ db' = db]_vars

\* C37: when a lifecycle operation replies with a failure, every request has
\* the status and the imposed fee it had before the operation.
C37_FailureMeansNoChange ==
    [][(response'.op \in StatusOps \cup {"editTravelRequest"} /\ response'.http >= 400)
         => \A r \in DOMAIN db.Request \cap DOMAIN db'.Request :
              /\ StatusOf(db', r) = StatusOf(db, r)
              /\ db'.Request[r].imposed_fee = db.Request[r].imposed_fee]_vars

\* C38: an operation that sends a notification has changed the status of
\* the request it was called for, or has created that request.
C38_MailOnlyOnChange ==
    [][response'.mail = "sent"
         => LET r == response'.request_id IN
            /\ r \in DOMAIN db'.Request
            /\ r \in DOMAIN db.Request => StatusOf(db', r) # StatusOf(db, r)]_vars

\* C39: the operation that follows an accounts-payable attend which set the
\* imposed fee of a request leaves that fee as it is, unless it is another
\* accounts-payable attend; and an edit changes neither the status nor the
\* owner of the request it edits.
C39_ImposedFeeKept ==
    [][/\ (response.op = "attendTravelRequest" /\ response.result = "ok"
           /\ response'.op # "attendTravelRequest")
            => db'.Request[response.request_id].imposed_fee
                 = db.Request[response.request_id].imposed_fee
       /\ (response'.op = "editTravelRequest"
           /\ response'.request_id \in DOMAIN db.Request)
            => /\ StatusOf(db', response'.request_id) = StatusOf(db, response'.request_id)
               /\ db'.Request[response'.request_id].user_id
                    = db.Request[response'.request_id].user_id]_vars

=============================================================================
